---- MODULE Spec2Model ----
(***************************************************************************)
(* Verification model of the Tably ordering backend: the menu-grounding    *)
(* validator (app/services/menu_validator.py), the swarm / single-agent    *)
(* dispatch (app/agents/swarm_orchestrator.py) and the ordering tools      *)
(* (app/agents/swarm_tools.py).                                            *)
(*                                                                         *)
(* Text is modelled as a sequence of one-character strings, so that        *)
(* str.lower(), the `in` substring test and string concatenation are       *)
(* computed as Python computes them.                                       *)
(***************************************************************************)
EXTENDS Integers, Sequences, FiniteSets, TLC

VARIABLES
    \* ---- MenuValidator.validate_response_async (one call) ----
    response,       \* the candidate response text passed to the validator
    menu_db,        \* what MenuItemsConnection.get_menu_items_by_business does
    menu_items,     \* local menu_items of validate_response_async
    vresult,        \* the returned (is_valid, corrected_response, available_items)
    vpc,            \* position of the call: "idle", "start", "fetched", "done"
    running_loop,   \* whether validate_response is called inside an event loop
    sresult,        \* what the synchronous wrapper validate_response returned
    vagain,         \* what validating the returned safe_response returned
    \* ---- one customer turn (swarm_tools.py, swarm_orchestrator.py) ----
    entry,          \* the entry point the caller used
    args,           \* the caller's arguments
    tpc,            \* position of the turn
    menu_context,   \* local menu_context of the tool / argument of process_order_*
    conversation_context,   \* local conversation_context / argument
    call_log,       \* the calls the turn has made to its collaborators, in order
    result,         \* the text process_order_with_swarm returned (or NoText)
    returned,       \* the text handed back to the caller (or NoText)
    \* ---- one Swarm invocation (strands.multiagent.Swarm) ----
    swarm_status,   \* "NONE", "EXECUTING", "COMPLETED", "FAILED", "RAISED"
    swarm_reason,   \* why the run ended
    node_history,   \* the agents that have executed, in order
    current_node,   \* the agent that executes next
    swarm_text,     \* the text of the last agent that executed
    \* ---- the conversation memory service (conversation_memory.py) ----
    sessions,       \* self.sessions: the sessions, by session id
    now,            \* the clock datetime.utcnow() reads, in minutes
    mcall,          \* the call to the service that has just returned, if any
    mret,           \* what that call returned
    \* ---- request handlers that run at the same time ----
    lock,           \* self._lock: "free" or the handler thread that holds it
    heap,           \* the ConversationSession objects created, by identity
    refs,           \* self.sessions by reference: session id -> object
    cpc,            \* where each handler thread is
    clocal,         \* the locals of each handler thread
    \* ---- the HTTP endpoints (conversation.py, ordering_agents.py) ----
    owner,          \* for each session id, the user it was created for, and how
    ereq,           \* the request that has just been answered, if any
    eresp,          \* the response to it
    \* ---- OrderTracker (order_tracking.py) ----
    active_connections, \* self.active_connections: order id -> list of websockets
    sockets,        \* each websocket: not yet accepted, tracking an order, closed
    update,         \* the send_update that is running: its order and its copy
    tcall           \* the step of the tracker that has just been taken, if any

validator_vars ==
    <<response, menu_db, menu_items, vresult, vpc, running_loop, sresult, vagain>>

turn_vars == <<entry, args, tpc, menu_context, conversation_context, call_log,
               result, returned>>

swarm_vars == <<swarm_status, swarm_reason, node_history, current_node, swarm_text>>

memory_vars == <<sessions, now, mcall, mret>>

thread_vars == <<lock, heap, refs, cpc, clocal>>

endpoint_vars == <<owner, ereq, eresp>>

tracker_vars == <<active_connections, sockets, update, tcall>>

handler_vars == <<thread_vars, endpoint_vars, tracker_vars>>

vars == <<response, menu_db, menu_items, vresult, vpc, running_loop, sresult, vagain,
          entry, args, tpc, menu_context, conversation_context, call_log,
          result, returned,
          swarm_status, swarm_reason, node_history, current_node, swarm_text,
          sessions, now, mcall, mret,
          lock, heap, refs, cpc, clocal, owner, ereq, eresp,
          active_connections, sockets, update, tcall>>

-----------------------------------------------------------------------------
(* Bounds of the model *)

\* number of phrases a candidate response is built from
MaxPhrases == 2

\* number of rows the menu table returns for the business
MaxMenuLen == 3

\* the messages a session holds at most
MaxMessages == 2

\* the minutes the clock of the memory service runs
MaxClock == 31

-----------------------------------------------------------------------------
(* Text helpers: Python str operations on character sequences *)

UpperCase == <<"A","B","C","D","E","F","G","H","I","J","K","L","M","N","O","P","Q","R","S","T","U","V","W","X","Y","Z">>

LowerCase == <<"a","b","c","d","e","f","g","h","i","j","k","l","m","n","o","p","q","r","s","t","u","v","w","x","y","z">>

\* str.lower() on one character
lower_char(c) ==
    IF \E i \in 1..26 : UpperCase[i] = c
    THEN LowerCase[CHOOSE i \in 1..26 : UpperCase[i] = c]
    ELSE c

\* str.lower()
lower(s) == [i \in 1..Len(s) |-> lower_char(s[i])]

\* Python `needle in hay` on strings
Contains(needle, hay) ==
    \E i \in 0..(Len(hay) - Len(needle)) :
        \A j \in 1..Len(needle) : hay[i + j] = needle[j]

\* any(indicator in text for indicator in indicators)
AnyIn(indicators, text) ==
    \E k \in 1..Len(indicators) : Contains(indicators[k], text)

Digits == <<"0","1","2","3","4","5","6","7","8","9">>

\* str(n) for a non-negative integer n
RECURSIVE str_int(_)
str_int(n) ==
    IF n < 10 THEN <<Digits[n + 1]>>
    ELSE str_int(n \div 10) \o <<Digits[(n % 10) + 1]>>

\* concatenation of a sequence of texts
RECURSIVE Concat(_)
Concat(parts) ==
    IF parts = <<>> THEN <<>> ELSE Head(parts) \o Concat(Tail(parts))

-----------------------------------------------------------------------------
(* MenuValidator: the fixed tables of validate_response_async *)

generic_items ==
    <<
       <<"c","l","a","s","s","i","c">>,  \* 'classic'
       <<"g","r","i","l","l","e","d">>,  \* 'grilled'
       <<"v","e","g","g","i","e">>,  \* 'veggie'
       <<"b","a","c","o","n">>,  \* 'bacon'
       <<"m","u","s","h","r","o","o","m">>,  \* 'mushroom'
       <<"s","w","i","s","s">>,  \* 'swiss'
       <<"b","e","e","f">>,  \* 'beef'
       <<"c","h","i","c","k","e","n">>,  \* 'chicken'
       <<"c","h","e","e","s","e">>,  \* 'cheese'
       <<"b","u","r","g","e","r">>,  \* 'burger'
       <<"s","a","n","d","w","i","c","h">>,  \* 'sandwich'
       <<"d","e","l","u","x","e">>,  \* 'deluxe'
       <<"s","u","p","r","e","m","e">>,  \* 'supreme'
       <<"p","r","e","m","i","u","m">>,  \* 'premium'
       <<"s","i","g","n","a","t","u","r","e">>,  \* 'signature'
       <<"s","p","e","c","i","a","l">>,  \* 'special'
       <<"o","r","i","g","i","n","a","l">>,  \* 'original'
       <<"e","s","p","r","e","s","s","o"," ","s","h","o","t">>,  \* 'espresso shot'
       <<"c","a","p","p","u","c","c","i","n","o">>,  \* 'cappuccino'
       <<"l","a","t","t","e">>,  \* 'latte'
       <<"a","m","e","r","i","c","a","n","o">>,  \* 'americano'
       <<"m","o","c","h","a">>,  \* 'mocha'
       <<"f","l","a","t"," ","w","h","i","t","e">>,  \* 'flat white'
       <<"c","o","l","d"," ","b","r","e","w">>,  \* 'cold brew'
       <<"a","f","f","o","g","a","t","o">>,  \* 'affogato'
       <<"c","o","r","t","a","d","o">>,  \* 'cortado'
       <<"m","a","c","c","h","i","a","t","o">> >>  \* 'macchiato'

negative_indicators ==
    <<
       <<"d","o","e","s","n","'","t">>,  \* "doesn't"
       <<"d","o","n","'","t">>,  \* "don't"
       <<"n","o","t"," ","a","v","a","i","l","a","b","l","e">>,  \* 'not available'
       <<"n","o","t"," ","o","n">>,  \* 'not on'
       <<"n","o","t"," ","i","n">>,  \* 'not in'
       <<"d","o","e","s","n","'","t"," ","h","a","v","e">>,  \* "doesn't have"
       <<"d","o","n","'","t"," ","h","a","v","e">>,  \* "don't have"
       <<"n","o","t"," ","c","u","r","r","e","n","t","l","y">>,  \* 'not currently'
       <<"n","o","t"," ","f","e","a","t","u","r","e">>,  \* 'not feature'
       <<"d","o","e","s","n","'","t"," ","c","u","r","r","e","n","t","l","y">>,  \* "doesn't currently"
       <<"d","o","n","'","t"," ","c","u","r","r","e","n","t","l","y">>,  \* "don't currently"
       <<"n","o","t"," ","o","f","f","e","r">>,  \* 'not offer'
       <<"d","o","e","s","n","'","t"," ","o","f","f","e","r">> >>  \* "doesn't offer"

cart_indicators ==
    <<
       <<"a","d","d","e","d">>,  \* 'added'
       <<"a","d","d">>,  \* 'add'
       <<"c","a","r","t">>,  \* 'cart'
       <<"o","r","d","e","r">>,  \* 'order'
       <<"c","o","n","f","i","r","m">>,  \* 'confirm'
       <<"p","l","a","c","e","d">>,  \* 'placed'
       <<"a","d","d","e","d"," ","t","o"," ","y","o","u","r"," ","c","a","r","t">>,  \* 'added to your cart'
       <<"a","d","d","e","d"," ","t","o"," ","y","o","u","r"," ","o","r","d","e","r">>,  \* 'added to your order'
       <<"a","d","d","e","d"," ","t","o"," ","c","a","r","t">>,  \* 'added to cart'
       <<"a","d","d","e","d"," ","t","o"," ","o","r","d","e","r">>,  \* 'added to order'
       <<"i","'","v","e"," ","a","d","d","e","d">> >>  \* "i've added"

\* "I'm sorry, but I can only recommend items that are actually available on our menu. "
ApologyPrefix ==
    <<"I","'","m"," ","s","o","r","r","y",","," ","b","u","t"," ","I"," ","c","a","n"," ","o","n","l","y"," ","r","e","c","o","m","m","e","n","d"," ","i","t","e","m","s"," ","t","h","a","t"," ","a","r","e"," ","a","c","t","u","a","l","l","y"," ","a","v","a","i","l","a","b","l","e"," ","o","n"," ","o","u","r"," ","m","e","n","u","."," ">>

\* "Here are our available items:\n"
ItemsHeader ==
    <<"H","e","r","e"," ","a","r","e"," ","o","u","r"," ","a","v","a","i","l","a","b","l","e"," ","i","t","e","m","s",":","\n">>

\* "Please ask a staff member for our current menu."
AskStaffSuffix ==
    <<"P","l","e","a","s","e"," ","a","s","k"," ","a"," ","s","t","a","f","f"," ","m","e","m","b","e","r"," ","f","o","r"," ","o","u","r"," ","c","u","r","r","e","n","t"," ","m","e","n","u",".">>

\* "I'm sorry, but I encountered an error. Please ask a staff member for assistance."
ErrorApology ==
    <<"I","'","m"," ","s","o","r","r","y",","," ","b","u","t"," ","I"," ","e","n","c","o","u","n","t","e","r","e","d"," ","a","n"," ","e","r","r","o","r","."," ","P","l","e","a","s","e"," ","a","s","k"," ","a"," ","s","t","a","f","f"," ","m","e","m","b","e","r"," ","f","o","r"," ","a","s","s","i","s","t","a","n","c","e",".">>

\* item.get("category", "Other")
Other == <<"O","t","h","e","r">>

-----------------------------------------------------------------------------
(* MenuValidator: the operations *)

\* a row of menu_items is a record; a key the row lacks is absent from its domain
HasKey(item, key) == key \in DOMAIN item

\* a slip: a failed fetch answers with rows kept from an earlier fetch
get_business_menu_items_stale(db) ==
    IF db.outcome = "items" THEN db.items
    ELSE <<[name |-> <<"M","o","c","h","a">>, price |-> 150]>>

\* get_business_menu_items_async: [] when the fetch raises, returns None or
\* returns no "items"; the rows otherwise
get_business_menu_items_async(db) ==
    IF db.outcome = "raise" THEN <<>>
    ELSE IF db.outcome = "none" THEN <<>>
    ELSE db.items

\* item.get("category", "Other")
item_category(item) ==
    IF HasKey(item, "category") THEN item.category ELSE Other

\* f"{item['name']} (P{item['price']})" with the peso sign
format_item(item) ==
    item.name \o <<" ","(","₱">> \o str_int(item.price) \o <<")">>

\* available_items = [item["name"].lower() for item in menu_items]
available_items_of(items) == [i \in 1..Len(items) |-> lower(items[i].name)]

\* available_items_with_prices
available_items_with_prices_of(items) ==
    [i \in 1..Len(items) |-> format_item(items[i])]

\* has_negative_indicator (lines 120-127): scanned over the whole response
has_negative_indicator(response_lower) ==
    AnyIn(negative_indicators, response_lower)

\* the loop of lines 114-131: the generic terms appended to non_menu_items
non_menu_items_of(response_lower, available_items) ==
    SelectSeq(generic_items, LAMBDA generic :
        /\ Contains(generic, response_lower)
        /\ ~ \E i \in 1..Len(available_items) : Contains(generic, available_items[i])
        /\ ~ has_negative_indicator(response_lower))

\* a slip: only the phrases of the list are looked for, not its bare words
has_cart_phrase(response_lower) ==
    AnyIn(SubSeq(cart_indicators, 7, Len(cart_indicators)), response_lower)

\* has_cart_indicator (lines 138-143)
has_cart_indicator(response_lower) == AnyIn(cart_indicators, response_lower)

\* a slip: the cart words alone exempt the response
has_menu_items_unchecked(response_lower, items) == TRUE

\* has_menu_items (line 148)
has_menu_items(response_lower, items) ==
    \E i \in 1..Len(items) : Contains(lower(items[i].name), response_lower)

\* a slip: a key is added for every row, seen before or not
RECURSIVE category_keys_repeated(_, _)
category_keys_repeated(items, seen) ==
    IF items = <<>> THEN seen
    ELSE category_keys_repeated(Tail(items), Append(seen, item_category(Head(items))))

\* the keys of the dict `categories`, in insertion order (lines 158-163)
RECURSIVE category_keys(_, _)
category_keys(items, seen) ==
    IF items = <<>> THEN seen
    ELSE LET c == item_category(Head(items)) IN
         IF \E k \in 1..Len(seen) : seen[k] = c
         THEN category_keys(Tail(items), seen)
         ELSE category_keys(Tail(items), Append(seen, c))

\* categories[category]: the formatted rows of one category, in menu order
category_rows(items, category) ==
    LET mine == SelectSeq(items, LAMBDA it : item_category(it) = category)
    IN  [i \in 1..Len(mine) |-> format_item(mine[i])]

\* one block of lines 166-169: "\n{category}:\n" then "- {item}\n" per row
category_block(items, category) ==
    <<"\n">> \o category \o <<":","\n">>
    \o Concat([i \in 1..Len(category_rows(items, category)) |->
                 <<"-"," ">> \o category_rows(items, category)[i] \o <<"\n">>])

\* corrected_response (lines 154-171)
corrected_response_of(items) ==
    ApologyPrefix \o
    (IF available_items_with_prices_of(items) # <<>>
     THEN ItemsHeader \o
          Concat([k \in 1..Len(category_keys(items, <<>>)) |->
                    category_block(items, category_keys(items, <<>>)[k])])
     ELSE AskStaffSuffix)

\* item["name"] or item['price'] raises KeyError (lines 97-98)
raises_key_error(items) ==
    \E i \in 1..Len(items) : ~HasKey(items[i], "name") \/ ~HasKey(items[i], "price")

\* a slip: the handler lets the response through unchanged
error_result_passes(resp) ==
    [is_valid |-> TRUE, corrected_response |-> resp, available_items |-> <<>>]

\* the except branch of validate_response_async (lines 177-179)
error_result(resp) ==
    [is_valid |-> FALSE, corrected_response |-> ErrorApology, available_items |-> <<>>]

\* the body of validate_response_async after the fetch (lines 90-179)
validate_items(resp, items) ==
    IF items = <<>>
    THEN [is_valid |-> TRUE, corrected_response |-> resp, available_items |-> <<>>]
    ELSE IF raises_key_error(items)
    THEN error_result(resp)
    ELSE LET response_lower == lower(resp)
             non_menu_items == non_menu_items_of(response_lower, available_items_of(items))
         IN  IF non_menu_items # <<>>
             THEN IF has_cart_indicator(response_lower)
                     /\ has_menu_items(response_lower, items)
                  THEN [is_valid |-> TRUE, corrected_response |-> resp,
                        available_items |-> available_items_with_prices_of(items)]
                  ELSE [is_valid |-> FALSE,
                        corrected_response |-> corrected_response_of(items),
                        available_items |-> available_items_with_prices_of(items)]
             ELSE [is_valid |-> TRUE, corrected_response |-> resp,
                   available_items |-> available_items_with_prices_of(items)]

\* get_business_menu_items (lines 15-51): [] inside a running event loop, the
\* rows of the fetch otherwise
get_business_menu_items(db, in_loop) ==
    IF in_loop THEN <<>>
    ELSE IF db.outcome = "raise" THEN <<>>
    ELSE IF db.outcome = "none" THEN <<>>
    ELSE db.items

\* validate_response (lines 181-223): inside a running event loop the response
\* passes whatever it names; with no loop running the asynchronous validation
\* is run to completion
validate_response(resp, db, in_loop) ==
    IF in_loop
    THEN LET items == get_business_menu_items(db, TRUE) IN
         IF items = <<>>
         THEN [is_valid |-> TRUE, corrected_response |-> resp, available_items |-> <<>>]
         ELSE IF raises_key_error(items)
         THEN [is_valid |-> TRUE, corrected_response |-> resp, available_items |-> <<>>]
         ELSE [is_valid |-> TRUE, corrected_response |-> resp,
               available_items |-> available_items_with_prices_of(items)]
    ELSE validate_items(resp, get_business_menu_items_async(db))

-----------------------------------------------------------------------------
(* Inputs of the validator *)

\* rows of the menu_items table; the second row has no category, the last
\* one lacks its price
ItemPool ==
    { [name |-> <<"C","a","p","p","u","c","c","i","n","o">>, price |-> 200, category |-> <<"C","o","f","f","e","e">>],
      [name |-> <<"C","r","o","i","s","s","a","n","t">>, price |-> 95],
      [name |-> <<"I","c","e","d"," ","L","a","t","t","e">>, price |-> 210, category |-> <<"C","o","f","f","e","e">>],
      [name |-> <<"M","u","f","f","i","n">>] }

\* a row whose category is a term of generic_items that its name does not hold
SandwichRow ==
    [name |-> <<"C","l","u","b">>, price |-> 150, category |-> <<"S","a","n","d","w","i","c","h">>]

\* sequences over S without repetition, of length at most n
RECURSIVE SeqsNoRep(_, _)
SeqsNoRep(S, n) ==
    IF n = 0 THEN {<<>>}
    ELSE LET shorter == SeqsNoRep(S, n - 1)
         IN  shorter \cup
             { Append(p[1], p[2]) :
                 p \in { q \in shorter \X S :
                           /\ Len(q[1]) = n - 1
                           /\ \A i \in 1..Len(q[1]) : q[1][i] # q[2] } }

\* the menus the table can hold: up to MaxMenuLen distinct rows, in any order,
\* and the menus that open with the sandwich row
Menus ==
    SeqsNoRep(ItemPool, MaxMenuLen)
    \cup { <<SandwichRow>> \o m : m \in SeqsNoRep(ItemPool, 1) }

\* what the menu fetch does
MenuDbOutcomes ==
    { [outcome |-> "raise"], [outcome |-> "none"] }
    \cup { [outcome |-> "items", items |-> m] : m \in Menus }

\* the phrases candidate responses are built from
Phrases ==
    <<
       <<"W","e"," ","d","o","n","'","t"," ","h","a","v","e">>,  \* "We don't have"
       <<"S","o","r","r","y",","," ","t","h","a","t"," ","i","s"," ","n","o","t"," ","a","v","a","i","l","a","b","l","e",".">>,  \* 'Sorry, that is not available.'
       <<"l","a","t","t","e">>,  \* 'latte'
       <<"b","u","r","g","e","r">>,  \* 'burger'
       <<"T","r","y"," ","o","u","r"," ","C","a","p","p","u","c","c","i","n","o">>,  \* 'Try our Cappuccino'
       <<"I","'","v","e"," ","a","d","d","e","d"," ","C","a","p","p","u","c","c","i","n","o"," ","t","o"," ","y","o","u","r"," ","c","a","r","t",".">>,  \* "I've added Cappuccino to your cart."
       <<"R","e","a","d","y"," ","t","o"," ","o","r","d","e","r"," ","a"," ","C","r","o","i","s","s","a","n","t","?">> >>  \* 'Ready to order a Croissant?'

\* " ".join(parts)
RECURSIVE join_space(_)
join_space(parts) ==
    IF parts = <<>> THEN <<>>
    ELSE IF Len(parts) = 1 THEN Head(parts)
    ELSE Head(parts) \o <<" ">> \o join_space(Tail(parts))

RECURSIVE SeqsUpTo(_, _)
SeqsUpTo(S, n) ==
    IF n = 0 THEN {<<>>}
    ELSE LET shorter == SeqsUpTo(S, n - 1)
         IN  shorter \cup { Append(s, x) : s \in shorter, x \in S }

Responses ==
    { join_space([i \in 1..Len(ix) |-> Phrases[ix[i]]]) :
        ix \in SeqsUpTo(1..Len(Phrases), MaxPhrases) }

NoResult == [is_valid |-> FALSE, corrected_response |-> <<>>, available_items |-> <<>>]

-----------------------------------------------------------------------------
(* One call of validate_response_async *)

ValidatorIdle ==
    /\ response = <<>>
    /\ menu_db = [outcome |-> "none"]
    /\ menu_items = <<>>
    /\ vresult = NoResult
    /\ vpc = "idle"
    /\ running_loop = FALSE
    /\ sresult = NoResult
    /\ vagain = NoResult

ValidatorCalled ==
    /\ response \in Responses
    /\ menu_db \in MenuDbOutcomes
    /\ menu_items = <<>>
    /\ vresult = NoResult
    /\ vpc = "start"
    /\ running_loop = FALSE
    /\ sresult = NoResult
    /\ vagain = NoResult

\* line 85: menu_items = await self.get_business_menu_items_async(business_id)
FetchMenu ==
    /\ vpc = "start"
    /\ menu_items' = get_business_menu_items_async(menu_db)
    /\ vpc' = "fetched"
    /\ UNCHANGED <<response, menu_db, vresult, running_loop, sresult, vagain>>
    /\ UNCHANGED <<turn_vars, swarm_vars, memory_vars, handler_vars>>

\* a slip: the lowered text is what is validated and handed back
ValidateResponseLowered ==
    /\ vpc = "fetched"
    /\ vresult' = validate_items(lower(response), menu_items)
    /\ vpc' = "done"
    /\ UNCHANGED <<response, menu_db, menu_items, running_loop, sresult, vagain>>
    /\ UNCHANGED <<turn_vars, swarm_vars, memory_vars, handler_vars>>

\* lines 90-179: the verdict
ValidateResponse ==
    /\ vpc = "fetched"
    /\ vresult' = validate_items(response, menu_items)
    /\ vpc' = "done"
    /\ UNCHANGED <<response, menu_db, menu_items, running_loop, sresult, vagain>>
    /\ UNCHANGED <<turn_vars, swarm_vars, memory_vars, handler_vars>>

\* validate_response(response, business_id) on the same response and menu,
\* from a caller that is or is not inside a running event loop
ValidateResponseSync ==
    \E in_loop \in BOOLEAN :
        /\ vpc = "done"
        /\ running_loop' = in_loop
        /\ sresult' = validate_response(response, menu_db, in_loop)
        /\ vpc' = "sync_done"
        /\ UNCHANGED <<response, menu_db, menu_items, vresult, vagain>>
        /\ UNCHANGED <<turn_vars, swarm_vars, memory_vars, handler_vars>>

\* validate_response_async(safe_response, business_id): the response the first
\* call corrected is validated again against the same menu
Revalidate ==
    /\ vpc = "done"
    /\ ~ vresult.is_valid
    /\ vagain' = validate_items(vresult.corrected_response,
                                get_business_menu_items_async(menu_db))
    /\ vpc' = "revalidated"
    /\ UNCHANGED <<response, menu_db, menu_items, vresult, running_loop, sresult>>
    /\ UNCHANGED <<turn_vars, swarm_vars, memory_vars, handler_vars>>

-----------------------------------------------------------------------------
(* The swarm configuration of create_ordering_swarm *)

max_handoffs == 6

\* a configuration slip: an iteration bound below the handoff bound
max_iterations_below_handoffs == max_handoffs - 2

max_iterations == 8

repetitive_handoff_detection_window == 3

\* a configuration slip: as many unique agents required as the window holds
min_unique_agents_as_window == repetitive_handoff_detection_window

repetitive_handoff_min_unique_agents == 2

\* execution_timeout=180.0 seconds, in minutes
execution_timeout_minutes == 3

\* the agents create_swarm_agents returns; the first one is the entry agent
SwarmAgents ==
    <<"order_coordinator", "menu_specialist", "language_specialist",
      "dietary_specialist", "order_validator">>

AgentNames == { SwarmAgents[i] : i \in 1..Len(SwarmAgents) }

EntryAgent == SwarmAgents[1]

-----------------------------------------------------------------------------
(* The coordinator of strands.multiagent.Swarm.  Its code is a third-party  *)
(* library outside the repository; it is modelled from section 4.4 of the  *)
(* design: bounds checked before each agent executes, a window over the    *)
(* most recent agents, termination reasons completed /                     *)
(* handoff_limit_exceeded / timeout / cycle_detected.                      *)

\* the last n entries of a history
LastN(history, n) == SubSeq(history, Len(history) - n + 1, Len(history))

\* the number of distinct agents in a window
DistinctAgents(window) == Cardinality({ window[i] : i \in 1..Len(window) })

\* the handoff targets so far: every agent that was handed to, the pending
\* one included (the entry agent is not a handoff target)
handoff_targets(history, current) == Tail(Append(history, current))

\* "continue", or the reason the coordinator stops before the next agent runs.
\* history holds the agents that have executed, one per handoff made so far.
should_continue(history, current, timed_out) ==
    IF Len(history) >= max_handoffs THEN "handoff_limit_exceeded"
    ELSE IF Len(history) >= max_iterations THEN "iteration_limit_exceeded"
    ELSE IF timed_out THEN "timeout"
    ELSE IF /\ repetitive_handoff_detection_window > 0
            /\ Len(handoff_targets(history, current))
                 >= repetitive_handoff_detection_window
            /\ DistinctAgents(LastN(handoff_targets(history, current),
                                    repetitive_handoff_detection_window))
                 < repetitive_handoff_min_unique_agents
         THEN "cycle_detected"
    ELSE "continue"

NoText == [producer |-> "none", text |-> "none"]

SwarmIdle ==
    /\ swarm_status = "NONE"
    /\ swarm_reason = "none"
    /\ node_history = <<>>
    /\ current_node = "none"
    /\ swarm_text = NoText

\* the coordinator stops the run: a bound is exceeded, the wall clock has run
\* out, or the window holds too few distinct agents
SwarmStop ==
    /\ tpc = "swarm"
    /\ swarm_status = "EXECUTING"
    /\ \E timed_out \in BOOLEAN :
        /\ should_continue(node_history, current_node, timed_out) # "continue"
        /\ swarm_reason' = should_continue(node_history, current_node, timed_out)
    /\ swarm_status' = "FAILED"
    /\ UNCHANGED <<node_history, current_node, swarm_text>>
    /\ UNCHANGED <<validator_vars, handler_vars, turn_vars, memory_vars>>

\* the current agent executes and answers without a handoff
SwarmAgentFinal ==
    /\ tpc = "swarm"
    /\ swarm_status = "EXECUTING"
    /\ should_continue(node_history, current_node, FALSE) = "continue"
    /\ node_history' = Append(node_history, current_node)
    /\ swarm_text' = [producer |-> current_node, text |-> "final answer"]
    /\ swarm_status' = "COMPLETED"
    /\ swarm_reason' = "completed"
    /\ UNCHANGED current_node
    /\ UNCHANGED <<validator_vars, handler_vars, turn_vars, memory_vars>>

\* the current agent executes and hands off to a target of the agent set
SwarmAgentHandoff ==
    /\ tpc = "swarm"
    /\ swarm_status = "EXECUTING"
    /\ should_continue(node_history, current_node, FALSE) = "continue"
    /\ \E target \in AgentNames :
        /\ node_history' = Append(node_history, current_node)
        /\ swarm_text' = [producer |-> current_node, text |-> "partial work"]
        /\ current_node' = target
    /\ UNCHANGED <<swarm_status, swarm_reason>>
    /\ UNCHANGED <<validator_vars, handler_vars, turn_vars, memory_vars>>

\* the current agent exceeds the per-agent timeout: the run ends as timed out
SwarmAgentTimeout ==
    /\ tpc = "swarm"
    /\ swarm_status = "EXECUTING"
    /\ should_continue(node_history, current_node, FALSE) = "continue"
    /\ swarm_status' = "FAILED"
    /\ swarm_reason' = "timeout"
    /\ UNCHANGED <<node_history, current_node, swarm_text>>
    /\ UNCHANGED <<validator_vars, handler_vars, turn_vars, memory_vars>>

\* the swarm call raises into its caller: no result object comes back
SwarmRaise ==
    /\ tpc = "swarm"
    /\ swarm_status = "EXECUTING"
    /\ swarm_status' = "RAISED"
    /\ swarm_reason' = "exception"
    /\ node_history' = <<>>
    /\ current_node' = "none"
    /\ swarm_text' = NoText
    /\ UNCHANGED <<validator_vars, handler_vars, turn_vars, memory_vars>>

-----------------------------------------------------------------------------
(* Conversation memory (services/conversation_memory.py) *)

None == "None"

\* the timeout of the service, in minutes (session_timeout_minutes)
session_timeout == 30

\* the default of message_limit / limit
default_message_limit == 10

SessionIds == {"s1", "s2"}

MessageTexts == {"hi", "Vegan x2"}

\* the minutes that pass between two calls of the service
TickMinutes == {session_timeout, session_timeout + 1}

\* the limits a caller passes to get_conversation_context
Limits == (0 .. MaxMessages) \cup {default_message_limit}

\* a dict, as a function on the set of its keys
EmptyDict == [k \in {} |-> k]

dict_set(d, key, value) ==
    [k \in (DOMAIN d) \cup {key} |-> IF k = key THEN value ELSE d[k]]

dict_del(d, key) == [k \in (DOMAIN d) \ {key} |-> d[k]]

\* the values a method of the service returns
RetNone == [kind |-> "None"]

RetSession(session) == [kind |-> "session", session |-> session]

RetBool(flag) == [kind |-> "bool", flag |-> flag]

RetStr(text) == [kind |-> "str", text |-> text]

ChatMessage(role, content, timestamp) ==
    [role |-> role, content |-> content, timestamp |-> timestamp]

ConversationSession(session_id, business_id, user_id, utcnow) ==
    [session_id |-> session_id, business_id |-> business_id, user_id |-> user_id,
     messages |-> <<>>, created_at |-> utcnow, last_activity |-> utcnow]

\* a slip: the activity is dated back by the timeout
add_message_backdated(session, role, content, utcnow) ==
    [session EXCEPT !.messages = Append(@, ChatMessage(role, content, utcnow)),
                    !.last_activity = utcnow - session_timeout]

\* a slip: the new message goes to the front of the list
add_message_prepends(session, role, content, utcnow) ==
    [session EXCEPT !.messages = <<ChatMessage(role, content, utcnow)>> \o @,
                    !.last_activity = utcnow]

\* ConversationSession.add_message
add_message(session, role, content, utcnow) ==
    [session EXCEPT !.messages = Append(@, ChatMessage(role, content, utcnow)),
                    !.last_activity = utcnow]

\* seq[start:] of Python, for any integer start
slice_from(seq, start) ==
    LET n == Len(seq)
        first == IF start < 0
                 THEN (IF n + start < 0 THEN 0 ELSE n + start)
                 ELSE (IF start > n THEN n ELSE start)
    IN  SubSeq(seq, first + 1, n)

\* ConversationSession.get_recent_messages
get_recent_messages(session, limit) ==
    IF session.messages # <<>> THEN slice_from(session.messages, 0 - limit) ELSE <<>>

\* two digits of a number below 100
pad2(n) == <<Digits[(n \div 10) + 1], Digits[(n % 10) + 1]>>

\* timestamp.strftime("%H:%M") of a time given in minutes
strftime_HM(t) == pad2((t \div 60) % 24) \o <<":">> \o pad2(t % 60)

\* role.title()
title(role) ==
    IF role = "user" THEN "User"
    ELSE IF role = "assistant" THEN "Assistant"
    ELSE role

ContextHeader == "CONVERSATION HISTORY:"

ContinueInstruction ==
    "Please continue this conversation naturally, maintaining context from previous messages."

\* f"[{timestamp}] {msg.role.title()}: {msg.content}", as a list of tokens
context_line(msg) ==
    <<"[">> \o strftime_HM(msg.timestamp) \o <<"] ", title(msg.role), ": ", msg.content>>

\* "\n".join(lines)
RECURSIVE join_newline(_)
join_newline(lines) ==
    IF lines = <<>> THEN <<>>
    ELSE IF Len(lines) = 1 THEN lines[1]
    ELSE lines[1] \o <<"\n">> \o join_newline(Tail(lines))

\* ConversationSession.get_conversation_context: the text, as a list of tokens
session_get_conversation_context(session, limit) ==
    LET recent_messages == get_recent_messages(session, limit)
        context_lines ==
            <<<<ContextHeader>>>>
            \o [i \in 1..Len(recent_messages) |-> context_line(recent_messages[i])]
            \o <<<<"\n", ContinueInstruction>>>>
    IN  IF recent_messages = <<>> THEN <<>> ELSE join_newline(context_lines)

\* a slip: a session is given twice the time
is_expired_late(session, utcnow) == utcnow - session.last_activity > 2 * session_timeout

\* line 146: the session has expired
is_expired(session, utcnow) == utcnow - session.last_activity > session_timeout

\* ConversationMemoryService.create_session
create_session(sessions_, utcnow, session_id, business_id, user_id) ==
    LET session == ConversationSession(session_id, business_id, user_id, utcnow)
    IN  [sessions |-> dict_set(sessions_, session_id, session),
         ret |-> RetSession(session)]

\* a slip: an expired session is reported and left in the map
get_session_keeps_expired(sessions_, utcnow, session_id) ==
    IF session_id \in DOMAIN sessions_ /\ ~ is_expired(sessions_[session_id], utcnow)
    THEN [sessions |-> sessions_, ret |-> RetSession(sessions_[session_id])]
    ELSE [sessions |-> sessions_, ret |-> RetNone]

\* ConversationMemoryService.get_session
get_session(sessions_, utcnow, session_id) ==
    IF session_id \in DOMAIN sessions_
    THEN IF is_expired(sessions_[session_id], utcnow)
         THEN [sessions |-> dict_del(sessions_, session_id), ret |-> RetNone]
         ELSE [sessions |-> sessions_, ret |-> RetSession(sessions_[session_id])]
    ELSE [sessions |-> sessions_, ret |-> RetNone]

\* ConversationMemoryService.get_or_create_session
get_or_create_session(sessions_, utcnow, session_id, business_id, user_id) ==
    LET got == get_session(sessions_, utcnow, session_id)
    IN  IF got.ret.kind = "None"
        THEN create_session(got.sessions, utcnow, session_id, business_id, user_id)
        ELSE got

\* a slip: the message is added to a session made anew
add_user_message_always_creates(sessions_, utcnow, session_id, message, business_id, user_id) ==
    LET got == create_session(sessions_, utcnow, session_id, business_id, user_id)
        session == add_message(got.ret.session, "user", message, utcnow)
    IN  [sessions |-> dict_set(got.sessions, session_id, session),
         ret |-> RetSession(session)]

\* ConversationMemoryService.add_user_message; the session is the object the
\* map holds, so the map sees the message
add_user_message(sessions_, utcnow, session_id, message, business_id, user_id) ==
    LET got == get_or_create_session(sessions_, utcnow, session_id, business_id, user_id)
        session == add_message(got.ret.session, "user", message, utcnow)
    IN  [sessions |-> dict_set(got.sessions, session_id, session),
         ret |-> RetSession(session)]

\* a slip: the assistant's message opens a session when there is none
add_assistant_message_creates(sessions_, utcnow, session_id, message) ==
    LET got == get_or_create_session(sessions_, utcnow, session_id, None, None)
        session == add_message(got.ret.session, "assistant", message, utcnow)
    IN  [sessions |-> dict_set(got.sessions, session_id, session),
         ret |-> RetSession(session)]

\* ConversationMemoryService.add_assistant_message
add_assistant_message(sessions_, utcnow, session_id, message) ==
    LET got == get_session(sessions_, utcnow, session_id)
    IN  IF got.ret.kind = "session"
        THEN LET session == add_message(got.ret.session, "assistant", message, utcnow)
             IN  [sessions |-> dict_set(got.sessions, session_id, session),
                  ret |-> RetSession(session)]
        ELSE got

\* ConversationMemoryService.get_conversation_context
get_conversation_context(sessions_, utcnow, session_id, message_limit) ==
    LET got == get_session(sessions_, utcnow, session_id)
    IN  [sessions |-> got.sessions,
         ret |-> IF got.ret.kind = "session"
                 THEN RetStr(session_get_conversation_context(got.ret.session, message_limit))
                 ELSE RetStr(<<>>)]

RetDict(value) == [kind |-> "dict", value |-> value]

\* the characters of a message content of the model
content_chars(content) ==
    IF content = "hi" THEN <<"h","i">>
    ELSE IF content = "ok" THEN <<"o","k">>
    ELSE IF content = "Vegan x2" THEN <<"V","e","g","a","n"," ","x","2">>
    ELSE <<>>

\* line 87
dietary_keywords ==
    << <<"v","e","g","e","t","a","r","i","a","n">>,
       <<"v","e","g","a","n">>,
       <<"g","l","u","t","e","n","-","f","r","e","e">>,
       <<"k","e","t","o">>,
       <<"a","l","l","e","r","g","i","c">>,
       <<"a","l","l","e","r","g","y">> >>

\* line 93
quantity_keywords ==
    << <<"2">>,
       <<"t","w","o">>,
       <<"3">>,
       <<"t","h","r","e","e">>,
       <<"l","a","r","g","e">>,
       <<"s","m","a","l","l">>,
       <<"e","x","t","r","a">> >>

\* line 99
preference_keywords ==
    << <<"s","p","i","c","y">>,
       <<"m","i","l","d">>,
       <<"h","o","t">>,
       <<"c","o","l","d">>,
       <<"s","w","e","e","t">>,
       <<"s","o","u","r">> >>

\* content_lower of each user message (lines 82-84); SubSeq has each text
\* computed once
user_contents_lower(session) ==
    LET users == SelectSeq(session.messages, LAMBDA message : message.role = "user")
        content_lower(i) == lower(content_chars(users[i].content))
    IN  SubSeq([i \in 1..Len(users) |->
                   SubSeq(content_lower(i), 1, Len(content_chars(users[i].content)))],
               1, Len(users))

\* the keywords of a list found in the user messages, as list(set(...)) holds
\* them: without repetition and in no order
keywords_mentioned(contents_lower, keywords) ==
    { keywords[k] : k \in { j \in 1..Len(keywords) :
        \E i \in 1..Len(contents_lower) : Contains(keywords[j], contents_lower[i]) } }

\* ConversationSession.extract_order_context (lines 71-108)
extract_order_context(session) ==
    LET contents_lower == user_contents_lower(session)
    IN  [mentioned_items |-> {},
         dietary_restrictions |-> keywords_mentioned(contents_lower, dietary_keywords),
         preferences |-> keywords_mentioned(contents_lower, preference_keywords),
         quantity_requests |-> keywords_mentioned(contents_lower, quantity_keywords),
         special_instructions |-> {}]

\* a slip: reading the order context counts as activity
get_order_context_touches(sessions_, utcnow, session_id) ==
    LET got == get_session(sessions_, utcnow, session_id)
    IN  IF got.ret.kind = "session"
        THEN [sessions |-> dict_set(got.sessions, session_id,
                                    [got.ret.session EXCEPT !.last_activity = utcnow]),
              ret |-> RetDict(extract_order_context(got.ret.session))]
        ELSE [sessions |-> got.sessions, ret |-> RetDict(EmptyDict)]

\* ConversationMemoryService.get_order_context (lines 203-208)
get_order_context(sessions_, utcnow, session_id) ==
    LET got == get_session(sessions_, utcnow, session_id)
    IN  [sessions |-> got.sessions,
         ret |-> IF got.ret.kind = "session"
                 THEN RetDict(extract_order_context(got.ret.session))
                 ELSE RetDict(EmptyDict)]

\* a slip: the answer is True whether or not a session was there
clear_session_always_true(sessions_, session_id) ==
    [sessions |-> dict_del(sessions_, session_id), ret |-> RetBool(TRUE)]

\* ConversationMemoryService.clear_session
clear_session(sessions_, session_id) ==
    IF session_id \in DOMAIN sessions_
    THEN [sessions |-> dict_del(sessions_, session_id), ret |-> RetBool(TRUE)]
    ELSE [sessions |-> sessions_, ret |-> RetBool(FALSE)]

\* ConversationMemoryService.cleanup_expired_sessions
cleanup_expired_sessions(sessions_, utcnow) ==
    LET expired_sessions == { k \in DOMAIN sessions_ : is_expired(sessions_[k], utcnow) }
    IN  [sessions |-> [k \in (DOMAIN sessions_) \ expired_sessions |-> sessions_[k]],
         ret |-> RetNone]

\* the record of a call: its arguments and the map it found
NoCall == [op |-> "none", session_id |-> None, message |-> None, limit |-> 0,
           before |-> EmptyDict]

Call(op, session_id, message, limit) ==
    [op |-> op, session_id |-> session_id, message |-> message, limit |-> limit,
     before |-> sessions]

\* the service after its construction (line 248)
MemoryIdle ==
    /\ sessions = EmptyDict
    /\ now = 0
    /\ mcall = NoCall
    /\ mret = RetNone

RECURSIVE SumOver(_, _)
SumOver(f, keys) ==
    IF keys = {} THEN 0
    ELSE LET k == CHOOSE x \in keys : TRUE
         IN  f[k] + SumOver(f, keys \ {k})

\* sum(len(session.messages) for session in self.sessions.values()), line 244
total_messages(sessions_) ==
    SumOver([k \in DOMAIN sessions_ |-> Len(sessions_[k].messages)], DOMAIN sessions_)

\* ConversationMemoryService.get_session_stats (lines 235-245)
get_session_stats(sessions_) ==
    LET businesses == { sessions_[k].business_id : k \in DOMAIN sessions_ } \ {None}
    IN  [sessions |-> sessions_,
         ret |-> RetDict(
             [active_sessions |-> Cardinality(DOMAIN sessions_),
              sessions_by_business |->
                  [b \in businesses |->
                      Cardinality({ k \in DOMAIN sessions_ : sessions_[k].business_id = b })],
              total_messages |-> total_messages(sessions_)])]

\* room for one more message under the bound of the model
HasRoom == total_messages(sessions) < MaxMessages

\* a call of create_session (lines 119-138)
CreateSession ==
    \E session_id \in SessionIds :
        LET outcome == create_session(sessions, now, session_id, "biz", "user1")
        IN  /\ mcall' = Call("create_session", session_id, None, 0)
            /\ sessions' = outcome.sessions
            /\ mret' = outcome.ret
            /\ UNCHANGED now
            /\ UNCHANGED <<validator_vars, handler_vars, turn_vars, swarm_vars>>

\* a call of get_session (lines 140-151)
GetSession ==
    \E session_id \in SessionIds :
        LET outcome == get_session(sessions, now, session_id)
        IN  /\ mcall' = Call("get_session", session_id, None, 0)
            /\ sessions' = outcome.sessions
            /\ mret' = outcome.ret
            /\ UNCHANGED now
            /\ UNCHANGED <<validator_vars, handler_vars, turn_vars, swarm_vars>>

\* a call of add_user_message (lines 165-177)
AddUserMessage ==
    \E session_id \in SessionIds, message \in MessageTexts :
        LET outcome == add_user_message(sessions, now, session_id, message, "biz", None)
        IN  /\ HasRoom
            /\ mcall' = Call("add_user_message", session_id, message, 0)
            /\ sessions' = outcome.sessions
            /\ mret' = outcome.ret
            /\ UNCHANGED now
            /\ UNCHANGED <<validator_vars, handler_vars, turn_vars, swarm_vars>>

\* a call of add_assistant_message (lines 179-190)
AddAssistantMessage ==
    \E session_id \in SessionIds, message \in MessageTexts :
        LET outcome == add_assistant_message(sessions, now, session_id, message)
        IN  /\ HasRoom
            /\ mcall' = Call("add_assistant_message", session_id, message, 0)
            /\ sessions' = outcome.sessions
            /\ mret' = outcome.ret
            /\ UNCHANGED now
            /\ UNCHANGED <<validator_vars, handler_vars, turn_vars, swarm_vars>>

\* a call of get_conversation_context (lines 192-201)
GetConversationContext ==
    \E session_id \in SessionIds, message_limit \in Limits :
        LET outcome == get_conversation_context(sessions, now, session_id, message_limit)
        IN  /\ mcall' = Call("get_conversation_context", session_id, None, message_limit)
            /\ sessions' = outcome.sessions
            /\ mret' = outcome.ret
            /\ UNCHANGED now
            /\ UNCHANGED <<validator_vars, handler_vars, turn_vars, swarm_vars>>

\* a call of clear_session (lines 210-217)
ClearSession ==
    \E session_id \in SessionIds :
        LET outcome == clear_session(sessions, session_id)
        IN  /\ mcall' = Call("clear_session", session_id, None, 0)
            /\ sessions' = outcome.sessions
            /\ mret' = outcome.ret
            /\ UNCHANGED now
            /\ UNCHANGED <<validator_vars, handler_vars, turn_vars, swarm_vars>>

\* a call of cleanup_expired_sessions (lines 219-233)
CleanupExpiredSessions ==
    LET outcome == cleanup_expired_sessions(sessions, now)
    IN  /\ mcall' = Call("cleanup_expired_sessions", None, None, 0)
        /\ sessions' = outcome.sessions
        /\ mret' = outcome.ret
        /\ UNCHANGED now
        /\ UNCHANGED <<validator_vars, handler_vars, turn_vars, swarm_vars>>

\* a call of get_order_context (lines 203-208)
GetOrderContext ==
    \E session_id \in SessionIds :
        LET outcome == get_order_context(sessions, now, session_id)
        IN  /\ mcall' = Call("get_order_context", session_id, None, 0)
            /\ sessions' = outcome.sessions
            /\ mret' = outcome.ret
            /\ UNCHANGED now
            /\ UNCHANGED <<validator_vars, handler_vars, turn_vars, swarm_vars>>

\* a call of get_session_stats (lines 235-245)
GetSessionStats ==
    LET outcome == get_session_stats(sessions)
    IN  /\ mcall' = Call("get_session_stats", None, None, 0)
        /\ sessions' = outcome.sessions
        /\ mret' = outcome.ret
        /\ UNCHANGED now
        /\ UNCHANGED <<validator_vars, handler_vars, turn_vars, swarm_vars>>

\* time passes between two calls
Tick ==
    /\ \E minutes \in TickMinutes :
        /\ now + minutes <= MaxClock
        /\ now' = now + minutes
    /\ mcall' = NoCall
    /\ mret' = RetNone
    /\ UNCHANGED sessions
    /\ UNCHANGED <<validator_vars, handler_vars, turn_vars, swarm_vars>>

-----------------------------------------------------------------------------
(* One customer turn *)

ToolEntries == {"ordering_swarm", "recommendation_swarm", "multilingual_ordering_swarm"}

DirectEntries == {"process_order_with_swarm", "process_order_with_swarm_async"}

EntryPoints == ToolEntries \cup DirectEntries

\* a conversation context a caller of process_order_with_swarm passes in
CallerContext == RetStr(<<ContextHeader>>)

\* the arguments a caller can pass to each entry point; a parameter the entry
\* point does not have keeps its default
ArgsOf(e) ==
    IF e = "ordering_swarm" THEN
        [customer_request : {"request"}, business_id : {None, "biz"},
         include_menu_context : BOOLEAN, swarm_flag : BOOLEAN,
         session_id : {None, "s1"},
         menu_context : {None}, conversation_context : {RetNone}]
    ELSE IF e \in {"recommendation_swarm", "multilingual_ordering_swarm"} THEN
        [customer_request : {"request"}, business_id : {None, "biz"},
         include_menu_context : {TRUE}, swarm_flag : {FALSE},
         session_id : {None},
         menu_context : {None}, conversation_context : {RetNone}]
    ELSE IF e = "process_order_with_swarm" THEN
        [customer_request : {"request"}, business_id : {"biz"},
         include_menu_context : {TRUE}, swarm_flag : BOOLEAN,
         session_id : {None},
         menu_context : {None, "menu"}, conversation_context : {RetNone, CallerContext}]
    ELSE
        [customer_request : {"request"}, business_id : {"biz"},
         include_menu_context : {TRUE}, swarm_flag : {FALSE},
         session_id : {None},
         menu_context : {None, "menu"}, conversation_context : {RetNone, CallerContext}]

\* the request text the entry point passes on: ordering_swarm passes the
\* customer's text, the other two tools build a request around it
request_of(e, a) ==
    IF e = "recommendation_swarm" THEN "recommendation request"
    ELSE IF e = "multilingual_ordering_swarm" THEN "language request"
    ELSE a.customer_request

\* the force_swarm argument process_order_with_swarm receives
force_swarm_of(e, a) ==
    IF e = "ordering_swarm" THEN a.swarm_flag
    ELSE IF e = "process_order_with_swarm" THEN a.swarm_flag
    ELSE FALSE

\* whether the tool loads the menu context
loads_menu_context(e, a) ==
    IF e = "ordering_swarm" THEN a.include_menu_context /\ a.business_id # None
    ELSE a.business_id # None

Log(call) == Append(call_log, call)

\* the turn talks to the memory service (swarm_tools.py lines 60, 81)
uses_memory(e, a) == e = "ordering_swarm" /\ a.session_id # None

\* a session that holds one earlier exchange of the conversation
EarlierSession(session_id, utcnow) ==
    add_message(
        add_message(ConversationSession(session_id, "biz", None, utcnow),
                    "user", "hi", utcnow),
        "assistant", "ok", utcnow)

\* the clock when the turn starts
TurnStart == session_timeout + 1

\* the memory a turn can find: no session, a session last used exactly the
\* timeout ago, a session last used longer ago
SessionsBefore(session_id) ==
    {EmptyDict}
    \cup { dict_set(EmptyDict, session_id, EarlierSession(session_id, t)) : t \in {0, 1} }

\* the minutes an agent run takes; the swarm is cut off at execution_timeout
AgentMinutes == {0, execution_timeout_minutes}

MemoryBeforeTurn ==
    /\ now = TurnStart
    /\ sessions \in IF uses_memory(entry, args)
                    THEN SessionsBefore(args.session_id)
                    ELSE {EmptyDict}
    /\ mcall = NoCall
    /\ mret = RetNone

InitTurn ==
    /\ entry \in EntryPoints
    /\ args \in ArgsOf(entry)
    /\ tpc = IF entry \in ToolEntries THEN "tool_called" ELSE "dispatch"
    /\ menu_context = args.menu_context
    /\ conversation_context = args.conversation_context
    /\ call_log = <<>>
    /\ result = NoText
    /\ returned = NoText

TurnIdle ==
    /\ entry = "none"
    /\ args = [customer_request |-> None, business_id |-> None,
               include_menu_context |-> FALSE, swarm_flag |-> FALSE,
               session_id |-> None, menu_context |-> None,
               conversation_context |-> RetNone]
    /\ tpc = "idle"
    /\ menu_context = None
    /\ conversation_context = RetNone
    /\ call_log = <<>>
    /\ result = NoText
    /\ returned = NoText

\* swarm_tools.py lines 44-57, 130-141, 186-197: the menu context of the turn
LoadMenuContext ==
    /\ tpc = "tool_called"
    /\ IF loads_menu_context(entry, args)
       THEN /\ call_log' = Log([call |-> "get_business_menu_context",
                                business_id |-> args.business_id])
            /\ \E fetched \in {"menu", None} : menu_context' = fetched
       ELSE /\ menu_context' = None
            /\ UNCHANGED call_log
    /\ tpc' = IF entry = "ordering_swarm" THEN "menu_loaded" ELSE "dispatch"
    /\ UNCHANGED <<entry, args, conversation_context, result, returned>>
    /\ UNCHANGED <<validator_vars, handler_vars, swarm_vars, memory_vars>>

\* a slip: the context is read before the user's message is stored
load_conversation_reads_first(sessions_, utcnow, a) ==
    LET context == get_conversation_context(sessions_, utcnow, a.session_id,
                                            default_message_limit)
        added == add_user_message(context.sessions, utcnow, a.session_id,
                                  a.customer_request, a.business_id, None)
    IN  [added |-> added.sessions, sessions |-> added.sessions, ret |-> context.ret]

\* swarm_tools.py lines 63 and 65: the two calls to the memory, in their order
load_conversation(sessions_, utcnow, a) ==
    LET added == add_user_message(sessions_, utcnow, a.session_id,
                                  a.customer_request, a.business_id, None)
        context == get_conversation_context(added.sessions, utcnow, a.session_id,
                                            default_message_limit)
    IN  [added |-> added.sessions, sessions |-> context.sessions, ret |-> context.ret]

\* swarm_tools.py lines 59-69: the user message is stored and the context
\* read; when either call raises, the turn goes on without a context
LoadConversation ==
    /\ tpc = "menu_loaded"
    /\ IF args.session_id # None
       THEN \E outcome \in {"ok", "add_raises", "get_raises"} :
             LET loaded == load_conversation(sessions, now, args)
                 add_call == [call |-> "add_user_message",
                              session_id |-> args.session_id,
                              raised |-> outcome = "add_raises",
                              before |-> sessions]
                 get_call == [call |-> "get_conversation_context",
                              session_id |-> args.session_id,
                              raised |-> outcome = "get_raises"]
             IN  /\ call_log' = IF outcome = "add_raises"
                                THEN Log(add_call)
                                ELSE Log(add_call) \o <<get_call>>
                 /\ sessions' = IF outcome = "add_raises" THEN sessions
                                ELSE IF outcome = "get_raises" THEN loaded.added
                                ELSE loaded.sessions
                 /\ conversation_context' =
                        IF outcome = "ok" THEN loaded.ret ELSE RetNone
       ELSE UNCHANGED <<call_log, conversation_context, sessions>>
    /\ tpc' = "dispatch"
    /\ UNCHANGED <<entry, args, menu_context, result, returned>>
    /\ UNCHANGED <<now, mcall, mret>>
    /\ UNCHANGED <<validator_vars, handler_vars, swarm_vars>>

\* a slip: the swarm's text is returned whenever the swarm call came back
returns_swarm_text_when_not_raised(status) == status # "RAISED"

\* swarm_orchestrator.py line 261: the status that lets the swarm's text out
returns_swarm_text(status) == status = "COMPLETED"

\* create_ordering_swarm lines 198-206: the business context that the system
\* prompt of every agent of the swarm ends with
swarm_business_context(business_id, menu) ==
    (IF business_id # None
     THEN <<[part |-> "Business ID", value |-> business_id]>> ELSE <<>>)
    \o (IF menu # None
        THEN <<[part |-> "MENU DATA", value |-> menu]>> ELSE <<>>)

\* create_ordering_swarm and the start of swarm(customer_request)
StartSwarm ==
    /\ call_log' = Log([call |-> "swarm",
                        request |-> request_of(entry, args),
                        menu_context |-> menu_context,
                        prompt |-> swarm_business_context(args.business_id, menu_context)])
    /\ swarm_status' = "EXECUTING"
    /\ swarm_reason' = "none"
    /\ node_history' = <<>>
    /\ current_node' = EntryAgent
    /\ swarm_text' = NoText
    /\ tpc' = "swarm"

\* process_order_with_swarm lines 242-253
ProcessOrderWithSwarm ==
    /\ tpc = "dispatch"
    /\ entry # "process_order_with_swarm_async"
    /\ IF ~ force_swarm_of(entry, args)
       THEN /\ tpc' = "fallback"
            /\ UNCHANGED <<call_log, swarm_vars>>
       ELSE StartSwarm
    /\ UNCHANGED <<entry, args, menu_context, conversation_context, result, returned>>
    /\ UNCHANGED <<validator_vars, handler_vars, memory_vars>>

\* process_order_with_swarm_async lines 287-294
ProcessOrderWithSwarmAsync ==
    /\ tpc = "dispatch"
    /\ entry = "process_order_with_swarm_async"
    /\ StartSwarm
    /\ UNCHANGED <<entry, args, menu_context, conversation_context, result, returned>>
    /\ UNCHANGED <<validator_vars, handler_vars, memory_vars>>

\* lines 261-275 and 301-315: the swarm's text on COMPLETED, the fallback on
\* any other status and on an exception.  The locals swarm and result end
\* with the branch; the status and reason of the run are kept for reference.
SwarmResult ==
    /\ tpc = "swarm"
    /\ swarm_status \in {"COMPLETED", "FAILED", "RAISED"}
    /\ IF returns_swarm_text(swarm_status)
       THEN /\ result' = swarm_text
            /\ tpc' = "processed"
       ELSE /\ tpc' = "fallback"
            /\ UNCHANGED result
    /\ node_history' = <<>>
    /\ current_node' = "none"
    /\ swarm_text' = NoText
    /\ \E minutes \in AgentMinutes : now' = now + minutes
    /\ UNCHANGED <<swarm_status, swarm_reason>>
    /\ UNCHANGED <<entry, args, menu_context, conversation_context, call_log, returned>>
    /\ UNCHANGED <<sessions, mcall, mret>>
    /\ UNCHANGED <<validator_vars, handler_vars, handler_vars>>

\* _fallback_to_single_agent lines 329-372: the context inside the system
\* prompt of the single agent
fallback_context(business_id, menu, conversation) ==
    (IF business_id # None
     THEN <<[part |-> "Business ID", value |-> business_id]>> ELSE <<>>)
    \o (IF menu # None
        THEN <<[part |-> "MENU DATA", value |-> menu]>>
        ELSE <<[part |-> "MENU DATA", value |-> "No menu data available."]>>)
    \o (IF conversation.kind = "str" /\ conversation.text # <<>>
        THEN <<[part |-> "conversation_context", value |-> conversation]>> ELSE <<>>)

\* the arguments the fallback is called with (lines 244, 270, 275, 310, 315)
\* and the context it builds from them
fallback_call(e, a, menu, conversation) ==
    [call |-> "fallback_to_single_agent",
     request |-> request_of(e, a),
     menu_context |-> menu,
     conversation_context |-> conversation,
     prompt |-> fallback_context(a.business_id, menu, conversation)]

\* a slip: the error of the agent is not turned into a text
fallback_result_unhandled(raises) ==
    IF raises THEN NoText
    ELSE [producer |-> "fallback_agent", text |-> "answer"]

\* lines 423-427: str(response) of the agent, or the apology when anything raises
fallback_result(raises) ==
    IF raises
    THEN [producer |-> "fallback_to_single_agent", text |-> "technical difficulties"]
    ELSE [producer |-> "fallback_agent", text |-> "answer"]

\* _fallback_to_single_agent lines 317-427: one agent invocation, which takes
\* its time
FallbackToSingleAgent ==
    /\ tpc = "fallback"
    /\ \E raises \in BOOLEAN :
        /\ call_log' = Log(fallback_call(entry, args, menu_context, conversation_context))
                         \o <<[call |-> "fallback_agent", raised |-> raises]>>
        /\ result' = fallback_result(raises)
    /\ \E minutes \in AgentMinutes : now' = now + minutes
    /\ tpc' = "processed"
    /\ UNCHANGED <<entry, args, menu_context, conversation_context, returned>>
    /\ UNCHANGED <<sessions, mcall, mret>>
    /\ UNCHANGED <<validator_vars, handler_vars, swarm_vars>>

\* swarm_tools.py lines 80-87 (and 151, 207): the assistant message is stored
\* when the turn has a session, and the result is returned
ReturnResult ==
    /\ tpc = "processed"
    /\ IF entry = "ordering_swarm" /\ args.session_id # None
       THEN \E raises \in BOOLEAN :
             LET added == add_assistant_message(sessions, now, args.session_id, result.text)
             IN  /\ call_log' = Log([call |-> "add_assistant_message",
                                     session_id |-> args.session_id,
                                     text |-> result,
                                     raised |-> raises])
                 /\ sessions' = IF raises THEN sessions ELSE added.sessions
       ELSE UNCHANGED <<call_log, sessions>>
    /\ returned' = result
    /\ tpc' = "returned"
    /\ UNCHANGED <<entry, args, menu_context, conversation_context, result>>
    /\ UNCHANGED <<now, mcall, mret>>
    /\ UNCHANGED <<validator_vars, handler_vars, swarm_vars>>

-----------------------------------------------------------------------------
(* Two request handlers on the one ConversationMemoryService *)

\* the handler threads; each runs one ordering_swarm turn with a session_id
Threads == {"t1", "t2"}

\* the customer_request of each handler
RequestOf(t) == IF t = "t1" THEN "hi" ELSE "Vegan x2"

NoObject == 0

\* where a handler is: the call of ordering_swarm it is in, and the line of
\* the service inside that call
At(call, line) == [call |-> call, line |-> line]

NoLocals == [session_id |-> None, session |-> NoObject, conversation_context |-> RetNone]

\* self.sessions by value: each session_id with the fields of its object
sessions_of(heap_, refs_) == [k \in DOMAIN refs_ |-> heap_[refs_[k]]]

ThreadsIdle ==
    /\ lock = "free"
    /\ heap = <<>>
    /\ refs = EmptyDict
    /\ cpc = [t \in Threads |-> At("idle", "-")]
    /\ clocal = [t \in Threads |-> NoLocals]

\* both handlers have been called; the first on s1, the second on s1 or s2;
\* the service holds what an earlier turn on s1 left
ThreadsCalled ==
    /\ lock = "free"
    /\ \E before \in SessionsBefore("s1") :
        /\ heap = [i \in 1..Cardinality(DOMAIN before) |-> before["s1"]]
        /\ refs = [k \in DOMAIN before |-> 1]
    /\ cpc = [t \in Threads |-> At("start", "-")]
    /\ \E other \in SessionIds :
        clocal = [t \in Threads |->
                    [NoLocals EXCEPT !.session_id = IF t = "t1" THEN "s1" ELSE other]]

\* the lines at which the `with self._lock:` of a method is entered
LockedMethods == {"get_session", "create_session"}

\* the line inside the with block of each
locked_line(line) ==
    IF line = "get_session" THEN "get_session_locked" ELSE "create_session_locked"

\* a slip: the lock is not given back when get_session returns
lock_after_get_session_kept(t) == t

\* the lock when the with block of get_session is left (lines 142-151)
lock_after_get_session(t) == "free"

\* where get_session returns to in each caller (lines 161-162, 175, 188-189,
\* 198-200)
after_get_session(call, found) ==
    IF call = "add_user_message"
    THEN IF found THEN At(call, "append") ELSE At(call, "create_session")
    ELSE IF call = "get_conversation_context"
    THEN IF found THEN At(call, "render") ELSE At("agent", "in_flight")
    ELSE IF found THEN At(call, "append") ELSE At("done", "-")

\* swarm_tools.py lines 45-52: the menu fetch of the turn begins
FetchMenuContext ==
    \E t \in Threads :
        /\ cpc[t] = At("start", "-")
        /\ cpc' = [cpc EXCEPT ![t] = At("menu_fetch", "in_flight")]
        /\ UNCHANGED <<lock, heap, refs, clocal>>
        /\ UNCHANGED <<validator_vars, turn_vars, swarm_vars, memory_vars>>
        /\ UNCHANGED <<endpoint_vars, tracker_vars>>

\* the menu fetch returns; line 63 calls add_user_message, which calls
\* get_or_create_session, which calls get_session
MenuContextFetched ==
    \E t \in Threads :
        /\ cpc[t] = At("menu_fetch", "in_flight")
        /\ cpc' = [cpc EXCEPT ![t] = At("add_user_message", "get_session")]
        /\ UNCHANGED <<lock, heap, refs, clocal>>
        /\ UNCHANGED <<validator_vars, turn_vars, swarm_vars, memory_vars>>
        /\ UNCHANGED <<endpoint_vars, tracker_vars>>

\* `with self._lock:` (lines 126, 142): the handler waits until the lock is
\* free and takes it
AcquireLock ==
    \E t \in Threads :
        /\ cpc[t].line \in LockedMethods
        /\ lock = "free"
        /\ lock' = t
        /\ cpc' = [cpc EXCEPT ![t] = At(cpc[t].call, locked_line(cpc[t].line))]
        /\ UNCHANGED <<heap, refs, clocal>>
        /\ UNCHANGED <<validator_vars, turn_vars, swarm_vars, memory_vars>>
        /\ UNCHANGED <<endpoint_vars, tracker_vars>>

\* get_session lines 143-151 under the lock, and its return to the caller
GetSessionLocked ==
    \E t \in Threads :
        LET id == clocal[t].session_id
            found == id \in DOMAIN refs /\ ~ is_expired(heap[refs[id]], now)
            refs_after == IF id \in DOMAIN refs /\ ~ found THEN dict_del(refs, id) ELSE refs
        IN  /\ cpc[t].line = "get_session_locked"
            /\ refs' = refs_after
            /\ sessions' = sessions_of(heap, refs_after)
            /\ clocal' = [clocal EXCEPT
                    ![t].session = IF found THEN refs[id] ELSE NoObject,
                    ![t].conversation_context =
                        IF cpc[t].call = "get_conversation_context" /\ ~ found
                        THEN RetStr(<<>>) ELSE @]
            /\ lock' = lock_after_get_session(t)
            /\ cpc' = [cpc EXCEPT ![t] = after_get_session(cpc[t].call, found)]
            /\ UNCHANGED <<heap, now, mcall, mret>>
            /\ UNCHANGED <<validator_vars, turn_vars, swarm_vars>>
            /\ UNCHANGED <<endpoint_vars, tracker_vars>>

\* create_session lines 127-138 under the lock: a new session object is put
\* in the map under the id, whatever the map holds there
CreateSessionLocked ==
    \E t \in Threads :
        LET id == clocal[t].session_id
            heap_after == Append(heap, ConversationSession(id, "biz", None, now))
            refs_after == dict_set(refs, id, Len(heap) + 1)
        IN  /\ cpc[t].line = "create_session_locked"
            /\ heap' = heap_after
            /\ refs' = refs_after
            /\ sessions' = sessions_of(heap_after, refs_after)
            /\ clocal' = [clocal EXCEPT ![t].session = Len(heap) + 1]
            /\ lock' = "free"
            /\ cpc' = [cpc EXCEPT ![t] = At(cpc[t].call, "append")]
            /\ UNCHANGED <<now, mcall, mret>>
            /\ UNCHANGED <<validator_vars, turn_vars, swarm_vars>>
            /\ UNCHANGED <<endpoint_vars, tracker_vars>>

\* add_message lines 44-50: self.messages.append(message), on the object the
\* handler holds; no lock is taken
AppendMessage ==
    \E t \in Threads :
        LET role == IF cpc[t].call = "add_user_message" THEN "user" ELSE "assistant"
            content == IF role = "user" THEN RequestOf(t) ELSE "ok"
            heap_after ==
                [heap EXCEPT ![clocal[t].session].messages =
                                 Append(@, ChatMessage(role, content, now))]
        IN  /\ cpc[t].line = "append"
            /\ heap' = heap_after
            /\ sessions' = sessions_of(heap_after, refs)
            /\ cpc' = [cpc EXCEPT ![t] = At(cpc[t].call, "last_activity")]
            /\ UNCHANGED <<lock, refs, clocal>>
            /\ UNCHANGED <<now, mcall, mret>>
            /\ UNCHANGED <<validator_vars, turn_vars, swarm_vars>>
            /\ UNCHANGED <<endpoint_vars, tracker_vars>>

\* add_message line 51: self.last_activity = datetime.utcnow(); then the
\* method returns: line 65 calls get_conversation_context, line 87 returns
UpdateLastActivity ==
    \E t \in Threads :
        LET heap_after == [heap EXCEPT ![clocal[t].session].last_activity = now]
        IN  /\ cpc[t].line = "last_activity"
            /\ heap' = heap_after
            /\ sessions' = sessions_of(heap_after, refs)
            /\ cpc' = [cpc EXCEPT ![t] =
                         IF cpc[t].call = "add_user_message"
                         THEN At("get_conversation_context", "get_session")
                         ELSE At("done", "-")]
            /\ UNCHANGED <<lock, refs, clocal>>
            /\ UNCHANGED <<now, mcall, mret>>
            /\ UNCHANGED <<validator_vars, turn_vars, swarm_vars>>
            /\ UNCHANGED <<endpoint_vars, tracker_vars>>

\* conversation_memory.py line 200: the context is rendered from the object
\* the handler holds; then lines 72-78 start the agent
RenderContext ==
    \E t \in Threads :
        /\ cpc[t] = At("get_conversation_context", "render")
        /\ clocal' = [clocal EXCEPT ![t].conversation_context =
                        RetStr(session_get_conversation_context(
                                   heap[clocal[t].session], default_message_limit))]
        /\ cpc' = [cpc EXCEPT ![t] = At("agent", "in_flight")]
        /\ UNCHANGED <<lock, heap, refs>>
        /\ UNCHANGED <<validator_vars, turn_vars, swarm_vars, memory_vars>>
        /\ UNCHANGED <<endpoint_vars, tracker_vars>>

\* the language-model invocation returns; line 83 calls add_assistant_message,
\* which calls get_session
AgentReturns ==
    \E t \in Threads :
        /\ cpc[t] = At("agent", "in_flight")
        /\ cpc' = [cpc EXCEPT ![t] = At("add_assistant_message", "get_session")]
        /\ UNCHANGED <<lock, heap, refs, clocal>>
        /\ UNCHANGED <<validator_vars, turn_vars, swarm_vars, memory_vars>>
        /\ UNCHANGED <<endpoint_vars, tracker_vars>>

-----------------------------------------------------------------------------
(* The conversation endpoints and the chat endpoint *)

\* str(current_user.id) of the authenticated users
Users == {"u1", "u2"}

NoRequest ==
    [endpoint |-> "none", user |-> None, session_id |-> None, at |-> 0,
     before |-> EmptyDict, owners |-> EmptyDict]

Request(endpoint, user, session_id) ==
    [endpoint |-> endpoint, user |-> user, session_id |-> session_id, at |-> now,
     before |-> sessions, owners |-> owner]

\* an HTTP response: the status and the messages of the body, if any
Response(status_code, messages) == [status_code |-> status_code, messages |-> messages]

EndpointsIdle ==
    /\ owner = EmptyDict
    /\ ereq = NoRequest
    /\ eresp = Response(0, <<>>)

\* ordering_swarm lines 60-65 and 80-85 with a session_id: the user's message
\* and the response are stored; no user_id is passed on
chat_turn(sessions_, utcnow, session_id, message) ==
    add_assistant_message(
        add_user_message(sessions_, utcnow, session_id, message, "biz", None).sessions,
        utcnow, session_id, "ok").sessions

\* get_conversation_history lines 76-88: the status for the session found
history_status(session, user) ==
    IF session.user_id # user THEN 403 ELSE 200

\* POST /sessions (lines 30-60): a session under a new id, for the caller
CreateConversationSession ==
    \E user \in Users, session_id \in SessionIds :
        LET outcome == create_session(sessions, now, session_id, "biz", user)
        IN  /\ session_id \notin DOMAIN sessions
            /\ ereq' = Request("create_conversation_session", user, session_id)
            /\ sessions' = outcome.sessions
            /\ owner' = dict_set(owner, session_id, [user |-> user, by |-> "create"])
            /\ eresp' = Response(200, outcome.ret.session.messages)
            /\ UNCHANGED <<now, mcall, mret>>
            /\ UNCHANGED <<thread_vars, tracker_vars>>
            /\ UNCHANGED <<validator_vars, turn_vars, swarm_vars>>

\* POST /chat (ordering_agents.py lines 279-297): one turn of ordering_swarm
\* with the session_id of the request; a turn that finds no live session under
\* the id creates one, on behalf of the caller
ChatWithOrderingSystem ==
    \E user \in Users, session_id \in SessionIds, message \in MessageTexts :
        LET found == get_session(sessions, now, session_id).ret.kind = "session"
        IN  /\ total_messages(sessions) + 2 <= MaxMessages
            /\ ereq' = Request("chat_with_ordering_system", user, session_id)
            /\ sessions' = chat_turn(sessions, now, session_id, message)
            /\ owner' = IF found THEN owner
                        ELSE dict_set(owner, session_id, [user |-> user, by |-> "chat"])
            /\ eresp' = Response(200, <<>>)
            /\ UNCHANGED <<now, mcall, mret>>
            /\ UNCHANGED <<thread_vars, tracker_vars>>
            /\ UNCHANGED <<validator_vars, turn_vars, swarm_vars>>

\* GET /sessions/{session_id} (lines 66-105)
GetConversationHistory ==
    \E user \in Users, session_id \in SessionIds :
        LET got == get_session(sessions, now, session_id)
        IN  /\ ereq' = Request("get_conversation_history", user, session_id)
            /\ sessions' = got.sessions
            /\ eresp' = IF got.ret.kind # "session" THEN Response(404, <<>>)
                        ELSE IF history_status(got.ret.session, user) = 403
                        THEN Response(403, <<>>)
                        ELSE Response(200, got.ret.session.messages)
            /\ UNCHANGED <<owner, now, mcall, mret>>
            /\ UNCHANGED <<thread_vars, tracker_vars>>
            /\ UNCHANGED <<validator_vars, turn_vars, swarm_vars>>

\* DELETE /sessions/{session_id} (lines 110-143)
ClearConversationSession ==
    \E user \in Users, session_id \in SessionIds :
        LET got == get_session(sessions, now, session_id)
            denied == got.ret.kind = "session" /\ got.ret.session.user_id # user
            cleared == clear_session(got.sessions, session_id)
        IN  /\ ereq' = Request("clear_conversation_session", user, session_id)
            /\ sessions' = IF denied THEN got.sessions ELSE cleared.sessions
            /\ eresp' = IF denied THEN Response(403, <<>>)
                        ELSE IF cleared.ret.flag THEN Response(200, <<>>)
                        ELSE Response(404, <<>>)
            /\ UNCHANGED <<owner, now, mcall, mret>>
            /\ UNCHANGED <<thread_vars, tracker_vars>>
            /\ UNCHANGED <<validator_vars, turn_vars, swarm_vars>>

-----------------------------------------------------------------------------
(* OrderTracker: the websockets that follow an order *)

WebSockets == {"w1", "w2"}

OrderIds == {"o1", "o2"}

NoTrackerCall == [op |-> "none", websocket |-> None, order_id |-> None, raised |-> FALSE]

TrackerCall(op, websocket, order_id, raised) ==
    [op |-> op, websocket |-> websocket, order_id |-> order_id, raised |-> raised]

NoUpdate == [order_id |-> None, remaining |-> <<>>]

\* OrderTracker.__init__ (lines 32-33), no handler of track_order_live running
TrackerIdle ==
    /\ active_connections = EmptyDict
    /\ sockets = [w \in WebSockets |-> [state |-> "new", order_id |-> None]]
    /\ update = NoUpdate
    /\ tcall = NoTrackerCall

\* `x in list`
InList(x, list) == \E i \in 1..Len(list) : list[i] = x

\* list.remove(x) when x is in the list: the first x goes
list_remove(list, x) ==
    LET first == CHOOSE i \in 1..Len(list) : list[i] = x /\ \A j \in 1..(i - 1) : list[j] # x
    IN  SubSeq(list, 1, first - 1) \o SubSeq(list, first + 1, Len(list))

\* OrderTracker.connect (lines 35-40)
connect(connections, websocket, order_id) ==
    LET listed == IF order_id \in DOMAIN connections THEN connections[order_id] ELSE <<>>
    IN  dict_set(connections, order_id, Append(listed, websocket))

\* OrderTracker.disconnect (lines 42-47): list.remove raises ValueError for a
\* websocket that is not in the list
disconnect(connections, websocket, order_id) ==
    IF order_id \notin DOMAIN connections
    THEN [connections |-> connections, raised |-> FALSE]
    ELSE IF ~ InList(websocket, connections[order_id])
    THEN [connections |-> connections, raised |-> TRUE]
    ELSE LET rest == list_remove(connections[order_id], websocket)
         IN  [connections |-> IF rest = <<>> THEN dict_del(connections, order_id)
                              ELSE dict_set(connections, order_id, rest),
              raised |-> FALSE]

\* the except branch of send_update (lines 55-57): the websocket is taken off
\* the list of the order; the lookup raises KeyError and list.remove raises
\* ValueError when another call took the order or the websocket away
drop_dead_connection(connections, websocket, order_id) ==
    IF order_id \notin DOMAIN connections \/ ~ InList(websocket, connections[order_id])
    THEN [connections |-> connections, raised |-> TRUE]
    ELSE [connections |-> dict_set(connections, order_id,
                                   list_remove(connections[order_id], websocket)),
          raised |-> FALSE]

\* track_order_live: a client opens a websocket for an order and the handler
\* calls order_tracker.connect
Connect ==
    \E websocket \in WebSockets, order_id \in OrderIds :
        /\ sockets[websocket].state = "new"
        /\ active_connections' = connect(active_connections, websocket, order_id)
        /\ sockets' = [sockets EXCEPT ![websocket] = [state |-> "tracking", order_id |-> order_id]]
        /\ tcall' = TrackerCall("connect", websocket, order_id, FALSE)
        /\ UNCHANGED update
        /\ UNCHANGED <<validator_vars, turn_vars, swarm_vars, memory_vars>>
        /\ UNCHANGED <<thread_vars, endpoint_vars>>

\* track_order_live lines 253-259: the handler of a websocket ends and calls
\* order_tracker.disconnect(websocket, order_id)
Disconnect ==
    \E websocket \in WebSockets :
        LET outcome == disconnect(active_connections, websocket, sockets[websocket].order_id)
        IN  /\ sockets[websocket].state = "tracking"
            /\ active_connections' = outcome.connections
            /\ sockets' = [sockets EXCEPT ![websocket].state = "closed"]
            /\ tcall' = TrackerCall("disconnect", websocket, sockets[websocket].order_id,
                                    outcome.raised)
            /\ UNCHANGED update
            /\ UNCHANGED <<validator_vars, turn_vars, swarm_vars, memory_vars>>
            /\ UNCHANGED <<thread_vars, endpoint_vars>>

\* update_order_status lines 294-305 call send_update, lines 51-52: the list
\* of the order is copied for the loop
SendUpdate ==
    \E order_id \in OrderIds :
        /\ update = NoUpdate
        /\ update' = IF order_id \in DOMAIN active_connections
                        /\ active_connections[order_id] # <<>>
                     THEN [order_id |-> order_id, remaining |-> active_connections[order_id]]
                     ELSE NoUpdate
        /\ tcall' = TrackerCall("send_update", None, order_id, FALSE)
        /\ UNCHANGED <<active_connections, sockets>>
        /\ UNCHANGED <<validator_vars, turn_vars, swarm_vars, memory_vars>>
        /\ UNCHANGED <<thread_vars, endpoint_vars>>

\* one round of the loop of send_update (lines 52-57): the send to the next
\* websocket of the copy succeeds, or it fails and the websocket is dropped;
\* an error in the except branch ends the call
SendToNext ==
    \E fails \in BOOLEAN :
        LET websocket == Head(update.remaining)
            outcome == IF fails
                       THEN drop_dead_connection(active_connections, websocket, update.order_id)
                       ELSE [connections |-> active_connections, raised |-> FALSE]
        IN  /\ update # NoUpdate
            /\ active_connections' = outcome.connections
            /\ update' = IF outcome.raised \/ Len(update.remaining) = 1 THEN NoUpdate
                         ELSE [update EXCEPT !.remaining = Tail(@)]
            /\ tcall' = TrackerCall(IF fails THEN "send_failed" ELSE "send",
                                    websocket, update.order_id, outcome.raised)
            /\ UNCHANGED sockets
            /\ UNCHANGED <<validator_vars, turn_vars, swarm_vars, memory_vars>>
            /\ UNCHANGED <<thread_vars, endpoint_vars>>

\* no handler has been called
HandlersIdle == ThreadsIdle /\ EndpointsIdle /\ TrackerIdle

-----------------------------------------------------------------------------
(* Specifications *)

\* a customer turn through any entry point
Init == InitTurn /\ MemoryBeforeTurn /\ SwarmIdle /\ ValidatorIdle /\ HandlersIdle

Next ==
    \/ LoadMenuContext
    \/ LoadConversation
    \/ ProcessOrderWithSwarm
    \/ ProcessOrderWithSwarmAsync
    \/ SwarmStop
    \/ SwarmAgentFinal
    \/ SwarmAgentHandoff
    \/ SwarmAgentTimeout
    \/ SwarmRaise
    \/ SwarmResult
    \/ FallbackToSingleAgent
    \/ ReturnResult

Spec == Init /\ [][Next]_vars

\* one call of the validator on any response and any menu
InitValidator == ValidatorCalled /\ TurnIdle /\ SwarmIdle /\ MemoryIdle /\ HandlersIdle

NextValidator == FetchMenu \/ ValidateResponse \/ ValidateResponseSync \/ Revalidate

SpecValidator == InitValidator /\ [][NextValidator]_vars

\* any sequence of calls to the memory service by one caller, as time passes
InitMemory == MemoryIdle /\ TurnIdle /\ SwarmIdle /\ ValidatorIdle /\ HandlersIdle

NextMemory ==
    \/ CreateSession
    \/ GetSession
    \/ AddUserMessage
    \/ AddAssistantMessage
    \/ GetConversationContext
    \/ ClearSession
    \/ CleanupExpiredSessions
    \/ GetOrderContext
    \/ GetSessionStats
    \/ Tick

SpecMemory == InitMemory /\ [][NextMemory]_vars

\* two handler threads, each running one turn with a session_id
InitConcurrent ==
    /\ ThreadsCalled
    /\ now = TurnStart
    /\ sessions = sessions_of(heap, refs)
    /\ mcall = NoCall
    /\ mret = RetNone
    /\ TurnIdle /\ SwarmIdle /\ ValidatorIdle /\ EndpointsIdle /\ TrackerIdle

NextConcurrent ==
    \/ FetchMenuContext
    \/ MenuContextFetched
    \/ AcquireLock
    \/ GetSessionLocked
    \/ CreateSessionLocked
    \/ AppendMessage
    \/ UpdateLastActivity
    \/ RenderContext
    \/ AgentReturns

SpecConcurrent == InitConcurrent /\ [][NextConcurrent]_vars

\* requests of two users to the conversation endpoints and the chat endpoint
InitEndpoints == InitMemory

NextEndpoints ==
    \/ CreateConversationSession
    \/ ChatWithOrderingSystem
    \/ GetConversationHistory
    \/ ClearConversationSession
    \/ Tick

SpecEndpoints == InitEndpoints /\ [][NextEndpoints]_vars

\* websocket handlers and status updates on the one OrderTracker
InitTracker == InitMemory

NextTracker == Connect \/ Disconnect \/ SendUpdate \/ SendToNext

SpecTracker == InitTracker /\ [][NextTracker]_vars

-----------------------------------------------------------------------------
(* Properties of the customer turn and of the swarm run *)

\* the entries of the call log that are calls of the named collaborator
CallsOf(name) == SelectSeq(call_log, LAMBDA c : c.call = name)

FallbackProducers == {"fallback_agent", "fallback_to_single_agent"}

\* the swarm run of this turn has ended and its outcome is still at hand
SwarmEnded == tpc = "swarm" /\ swarm_status \in {"COMPLETED", "FAILED"}

\* the agents of the run in handoff order: those that executed, then the one
\* that was handed to last
HandoffChain == Append(node_history, current_node)

\* every agent of the run handed off, each always to the same other agent
AlwaysHandsOffToSameOther(chain) ==
    /\ Len(chain) >= 2
    /\ \A i \in 1..(Len(chain) - 1) : chain[i] # chain[i + 1]
    /\ \A i, j \in 1..(Len(chain) - 1) :
         chain[i] = chain[j] => chain[i + 1] = chain[j + 1]

\* the run alternates between two agents: A, B, A, B, ...
Alternating(chain) ==
    /\ Len(chain) >= 4
    /\ chain[1] # chain[2]
    /\ \A i \in 1..(Len(chain) - 2) : chain[i + 2] = chain[i]

\* C1 (as claimed): every response text returned for a customer turn, on every
\* path, was passed through the menu-grounding validator before it is
\* returned and before it is stored as the assistant message.
C1_ReturnedTextWasValidated ==
    tpc = "returned" =>
        \E i \in 1..Len(call_log) :
            /\ call_log[i].call = "validate_response"
            /\ \A j \in 1..Len(call_log) :
                 call_log[j].call = "add_assistant_message" => i < j

\* C7: when a forced swarm run ends with a status other than completed, or
\* raises, the returned text comes from exactly one invocation of the
\* single-agent fallback on the original request with the same menu context,
\* and no text of a swarm agent is returned; only a completed run returns the
\* swarm's own text.
C7_FallbackOnNonConvergence ==
    (tpc = "returned" /\ swarm_status # "NONE") =>
        IF swarm_status = "COMPLETED"
        THEN /\ returned.producer \in AgentNames
             /\ Len(CallsOf("fallback_to_single_agent")) = 0
        ELSE /\ returned.producer \in FallbackProducers
             /\ returned.producer \notin AgentNames
             /\ Len(CallsOf("fallback_to_single_agent")) = 1
             /\ Len(CallsOf("swarm")) = 1
             /\ CallsOf("fallback_to_single_agent")[1].request
                  = request_of(entry, args)
             /\ CallsOf("fallback_to_single_agent")[1].request
                  = CallsOf("swarm")[1].request
             /\ CallsOf("fallback_to_single_agent")[1].menu_context
                  = CallsOf("swarm")[1].menu_context

\* C7 witness: a turn whose swarm run hit the handoff limit has returned
C7_Witness ==
    /\ tpc = "returned"
    /\ swarm_status = "FAILED"
    /\ swarm_reason = "handoff_limit_exceeded"
    /\ returned.producer = "fallback_agent"

\* C8: with max_handoffs=6, max_iterations=8, window 3 and 2 unique agents, a
\* run in which every agent always hands off to the same other agent ends
\* within max_handoffs agent steps with reason cycle_detected or
\* handoff_limit_exceeded (unless the clock ends it first); no run ever
\* executes more than max_handoffs agent steps.
C8_SwarmBoundEnforcement ==
    /\ Len(node_history) <= max_handoffs
    /\ (/\ SwarmEnded
        /\ swarm_status = "FAILED"
        /\ swarm_reason # "timeout"
        /\ AlwaysHandsOffToSameOther(HandoffChain))
       => /\ swarm_reason \in {"cycle_detected", "handoff_limit_exceeded"}
          /\ Len(node_history) <= max_handoffs
    /\ (/\ tpc = "swarm"
        /\ swarm_status = "EXECUTING"
        /\ Len(node_history) = max_handoffs)
       => should_continue(node_history, current_node, FALSE) # "continue"

\* C8 witness: a run through a cycle of three agents, each always handing off
\* to the same other agent, stopped at the handoff limit
C8_Witness ==
    /\ SwarmEnded
    /\ swarm_reason = "handoff_limit_exceeded"
    /\ AlwaysHandsOffToSameOther(HandoffChain)
    /\ Len(node_history) = max_handoffs
    /\ DistinctAgents(node_history) = 3

\* C9 (as claimed): an alternating handoff sequence A, B, A, B, ... is cut off
\* by cycle detection before the handoff limit of 6 is reached.
C9_AlternationCutByCycleDetection ==
    (/\ SwarmEnded
     /\ swarm_status = "FAILED"
     /\ swarm_reason # "timeout"
     /\ Alternating(HandoffChain))
    => /\ swarm_reason = "cycle_detected"
       /\ Len(node_history) < max_handoffs

\* C9 (amended): a run ends as a detected cycle exactly when the last 3
\* handoff targets hold fewer than 2 distinct agents, that is when one agent
\* was handed to 3 times in a row; an alternating sequence A, B, A, B, ...
\* always has 2 distinct agents in the window, is never ended as a cycle and
\* is cut off by the handoff limit of 6.
C9_LoopDetection ==
    /\ (SwarmEnded /\ swarm_reason = "cycle_detected")
       => /\ Len(handoff_targets(node_history, current_node)) >= 3
          /\ \A i \in 1..2 :
               LastN(handoff_targets(node_history, current_node), 3)[i]
                 = current_node
    /\ (/\ tpc = "swarm"
        /\ swarm_status = "EXECUTING"
        /\ Len(handoff_targets(node_history, current_node)) >= 3
        /\ DistinctAgents(LastN(handoff_targets(node_history, current_node), 3)) < 2)
       => should_continue(node_history, current_node, FALSE) # "continue"
    /\ (/\ SwarmEnded
        /\ swarm_status = "FAILED"
        /\ swarm_reason # "timeout"
        /\ Alternating(HandoffChain))
       => /\ swarm_reason = "handoff_limit_exceeded"
          /\ Len(node_history) = max_handoffs

\* C9 witness: an alternating run A, B, A, B, A, B stopped at the handoff limit
C9_Witness ==
    /\ SwarmEnded
    /\ swarm_status = "FAILED"
    /\ Alternating(HandoffChain)
    /\ swarm_reason = "handoff_limit_exceeded"
    /\ Len(node_history) = 6

\* C10 (as claimed): on every entry point a swarm is created and run only when
\* the explicit swarm flag is set; with the flag unset the turn is handled by
\* exactly one single-agent invocation and no swarm run.
C10_SwarmOnlyWhenFlagged ==
    tpc = "returned" =>
        /\ (Len(CallsOf("swarm")) > 0 => args.swarm_flag)
        /\ (~ args.swarm_flag =>
              /\ Len(CallsOf("fallback_to_single_agent")) = 1
              /\ Len(CallsOf("swarm")) = 0)

-----------------------------------------------------------------------------
(* Properties of the validator *)

\* text starts with prefix
StartsWith(text, prefix) ==
    /\ Len(text) >= Len(prefix)
    /\ SubSeq(text, 1, Len(prefix)) = prefix

\* text.split("\n")
RECURSIVE Lines(_)
Lines(text) ==
    IF \A i \in 1..Len(text) : text[i] # "\n" THEN <<text>>
    ELSE LET cut == CHOOSE i \in 1..Len(text) :
                        /\ text[i] = "\n"
                        /\ \A j \in 1..(i - 1) : text[j] # "\n"
         IN  <<SubSeq(text, 1, cut - 1)>> \o Lines(SubSeq(text, cut + 1, Len(text)))

\* the value of a decimal numeral
RECURSIVE DigitsValue(_)
DigitsValue(d) ==
    IF d = <<>> THEN 0
    ELSE 10 * DigitsValue(SubSeq(d, 1, Len(d) - 1))
         + ((CHOOSE k \in 1..10 : Digits[k] = d[Len(d)]) - 1)

\* d is the decimal numeral of n, without leading zeros
IsNumeralOf(d, n) ==
    /\ d # <<>>
    /\ \A i \in 1..Len(d) : \E k \in 1..10 : Digits[k] = d[i]
    /\ (Len(d) > 1 => d[1] # "0")
    /\ DigitsValue(d) = n

\* line is "- <name> (P<price>)" for this row, P the peso sign
IsLineOf(line, item) ==
    LET pre == <<"-"," ">> \o item.name \o <<" ","(","₱">>
    IN  /\ StartsWith(line, pre)
        /\ Len(line) > Len(pre) + 1
        /\ line[Len(line)] = ")"
        /\ IsNumeralOf(SubSeq(line, Len(pre) + 1, Len(line) - 1), item.price)

\* the category a row is listed under
ListedCategory(item) ==
    IF "category" \in DOMAIN item THEN item.category ELSE <<"O","t","h","e","r">>

WellFormed(items) ==
    \A i \in 1..Len(items) : {"name", "price"} \subseteq DOMAIN items[i]

Vocabulary == { generic_items[k] : k \in 1..Len(generic_items) }

\* some item name of the menu contains the term
InSomeItemName(term, items) ==
    \E i \in 1..Len(items) : Contains(lower(term), lower(items[i].name))

\* the response names a real menu item
NamesMenuItem(resp, items) ==
    LET low == lower(resp)
    IN  \E i \in 1..Len(items) : Contains(lower(items[i].name), low)

\* the flagged generic terms of a response: in the vocabulary, occurring in the
\* response, in no item name, and not excused by a negative-availability marker
FlaggedTerms(resp, items) ==
    LET low == lower(resp)
        excused == \E k \in 1..Len(negative_indicators) :
                       Contains(negative_indicators[k], low)
    IN  IF excused THEN {}
        ELSE { g \in Vocabulary : Contains(g, low) /\ ~ InSomeItemName(g, items) }

ClauseDelimiters == {".", ",", ";", "!", "?", "\n"}

\* the clause of text around position p: the stretch between the nearest
\* delimiters on both sides
ClauseAt(text, p) ==
    LET before == { i \in 1..(p - 1) : text[i] \in ClauseDelimiters }
        after == { i \in p..Len(text) : text[i] \in ClauseDelimiters }
        first == IF before = {} THEN 1
                 ELSE (CHOOSE i \in before : \A j \in before : j <= i) + 1
        last == IF after = {} THEN Len(text)
                ELSE (CHOOSE i \in after : \A j \in after : i <= j) - 1
    IN  SubSeq(text, first, last)

\* the positions where term occurs in text
Occurrences(term, text) ==
    { p \in 1..(Len(text) - Len(term) + 1) :
        \A j \in 1..Len(term) : text[p + j - 1] = term[j] }

\* every occurrence of term lies in a clause that holds a negative marker
OnlyInNegativeClauses(term, text) ==
    \A p \in Occurrences(term, text) :
        \E k \in 1..Len(negative_indicators) :
            Contains(negative_indicators[k], ClauseAt(text, p))

\* a cart or order word of the validator's list occurs in the response
HasCartWord(resp) ==
    LET low == lower(resp)
    IN  \E k \in 1..Len(cart_indicators) : Contains(cart_indicators[k], low)

\* the entries of the list that confirm an addition to the cart or an order:
\* all but the bare words "add", "cart" and "order"
CartConfirmationPhrases ==
    { cart_indicators[k] : k \in 1..Len(cart_indicators) }
      \ { <<"a","d","d">>, <<"c","a","r","t">>, <<"o","r","d","e","r">> }

HasCartConfirmation(resp) ==
    LET low == lower(resp)
    IN  \E c \in CartConfirmationPhrases : Contains(c, low)

\* the validator has returned for a non-empty menu of well-formed rows
ValidatedAgainstMenu ==
    vpc = "done" /\ menu_items # <<>> /\ WellFormed(menu_items)

C3_FailOpenOnEmptyCatalog ==
    (/\ vpc = "done"
     /\ \/ menu_db.outcome \in {"raise", "none"}
        \/ (menu_db.outcome = "items" /\ menu_db.items = <<>>))
    => vresult = [is_valid |-> TRUE, corrected_response |-> response,
                  available_items |-> <<>>]

\* C3 witness: the fetch raised and a response naming a generic term passed
C3_Witness ==
    /\ vpc = "done"
    /\ menu_db.outcome = "raise"
    /\ Contains(<<"b","u","r","g","e","r">>, lower(response))
    /\ vresult.is_valid
    /\ vresult.corrected_response = response

Rejected ==
    /\ ValidatedAgainstMenu
    /\ FlaggedTerms(response, menu_items) # {}
    /\ ~ (HasCartWord(response) /\ NamesMenuItem(response, menu_items))

\* C5: on rejection the validator returns is_valid=False and a safe_response
\* that starts with an apology and lists only items of the menu, grouped by
\* category, each with its exact name and price; every menu item appears
\* exactly once and no text of the candidate is carried over.
C5_CorrectedResponse ==
    Rejected =>
        LET SafeLines == Lines(vresult.corrected_response)
            ItemLineIdx ==
                { i \in 1..Len(SafeLines) : StartsWith(SafeLines[i], <<"-"," ">>) }
            HeaderLineIdx ==
                { i \in 2..Len(SafeLines) :
                    SafeLines[i] # <<>> /\ i \notin ItemLineIdx }
            HeaderAbove(i) ==
                SafeLines[CHOOSE h \in HeaderLineIdx :
                              h < i /\ \A g \in HeaderLineIdx : g < i => g <= h]
        IN  /\ vresult.is_valid = FALSE
            /\ SafeLines[1] = ApologyPrefix \o <<"H","e","r","e"," ","a","r","e"," ","o","u","r"," ","a","v","a","i","l","a","b","l","e"," ","i","t","e","m","s",":">>
            /\ Cardinality(ItemLineIdx) = Len(menu_items)
            /\ \A k \in 1..Len(menu_items) :
                 Cardinality({ i \in ItemLineIdx :
                                 IsLineOf(SafeLines[i], menu_items[k]) }) = 1
            /\ \A i \in ItemLineIdx :
                 /\ \E h \in HeaderLineIdx : h < i
                 /\ \E k \in 1..Len(menu_items) :
                      /\ IsLineOf(SafeLines[i], menu_items[k])
                      /\ HeaderAbove(i) = ListedCategory(menu_items[k]) \o <<":">>
            /\ \A h \in HeaderLineIdx :
                 /\ \E k \in 1..Len(menu_items) :
                      SafeLines[h] = ListedCategory(menu_items[k]) \o <<":">>
                 /\ \A g \in HeaderLineIdx : SafeLines[g] = SafeLines[h] => g = h

\* C5 witness: a rejection against a menu whose rows of one category are not
\* adjacent in the table
C5_Witness ==
    /\ Rejected
    /\ vresult.is_valid = FALSE
    /\ Len(menu_items) = 3
    /\ ListedCategory(menu_items[1]) = ListedCategory(menu_items[3])
    /\ ListedCategory(menu_items[1]) # ListedCategory(menu_items[2])

\* C6: whenever is_valid=True the returned safe_response is the candidate
\* response, character for character; the text is altered only when
\* is_valid=False.
C6_ValidResponseUnchanged ==
    vpc = "done" =>
        /\ (vresult.is_valid => vresult.corrected_response = response)
        /\ (vresult.corrected_response # response => ~ vresult.is_valid)

\* C6 witness: a mixed-case response with a flagged term passed by the cart
\* exemption
C6_Witness ==
    /\ ValidatedAgainstMenu
    /\ vresult.is_valid
    /\ FlaggedTerms(response, menu_items) # {}
    /\ response # lower(response)
    /\ vresult.corrected_response = response

-----------------------------------------------------------------------------
(* Claims about the conversation memory service *)

Called(op) == mcall.op = op

\* the session the call found under its id had been idle for more than 30 minutes
IdleTooLong ==
    /\ mcall.session_id \in DOMAIN mcall.before
    /\ now - mcall.before[mcall.session_id].last_activity > 30

\* the call found a session under its id that was not expired
FoundLive ==
    /\ mcall.session_id \in DOMAIN mcall.before
    /\ ~ IdleTooLong

\* the sessions under the other ids are as the call found them
OthersUntouched ==
    \A k \in SessionIds \ {mcall.session_id} :
        /\ k \in DOMAIN sessions <=> k \in DOMAIN mcall.before
        /\ k \in DOMAIN sessions => sessions[k] = mcall.before[k]

IsPrefix(s, t) == Len(s) <= Len(t) /\ SubSeq(t, 1, Len(s)) = s

\* C12 (as claimed): create_session on an id with a live session fails and
\* leaves the existing session and its messages as they were.
C12_CreateSessionRejectsDuplicate ==
    (Called("create_session") /\ FoundLive)
        => /\ mret.kind # "session"
           /\ mcall.session_id \in DOMAIN sessions
           /\ sessions[mcall.session_id] = mcall.before[mcall.session_id]

\* C13: get_session on a session idle for more than 30 minutes returns None
\* and removes it from the map; no call of get_session, get_conversation_context
\* or add_assistant_message hands out such a session or its messages, and a
\* session idle for exactly 30 minutes is still handed out.
C13_ExpiredSessionEvicted ==
    /\ (Called("get_session") /\ IdleTooLong)
           => mret.kind = "None" /\ mcall.session_id \notin DOMAIN sessions
    /\ (Called("add_assistant_message") /\ IdleTooLong)
           => mret.kind = "None" /\ mcall.session_id \notin DOMAIN sessions
    /\ (Called("get_conversation_context") /\ IdleTooLong)
           => mret.text = <<>> /\ mcall.session_id \notin DOMAIN sessions
    /\ (Called("get_session") /\ FoundLive)
           => mret = RetSession(mcall.before[mcall.session_id])

C13_Witness ==
    /\ Called("get_session")
    /\ IdleTooLong
    /\ mcall.before[mcall.session_id].messages # <<>>
    /\ mret.kind = "None"
    /\ mcall.session_id \notin DOMAIN sessions

\* C14: add_assistant_message on an id with no session, or with an expired
\* one, returns None, appends nothing and leaves no session under the id.
C14_AssistantMessageNeverCreates ==
    (Called("add_assistant_message") /\ ~ FoundLive)
        => /\ mret.kind = "None"
           /\ mcall.session_id \notin DOMAIN sessions
           /\ OthersUntouched

C14_Witness ==
    /\ Called("add_assistant_message")
    /\ mcall.session_id \notin DOMAIN mcall.before
    /\ mcall.before # EmptyDict
    /\ mret.kind = "None"

\* C15: add_user_message reuses a live session with its earlier messages and
\* creates a new one otherwise; either way the user's text is appended as the
\* one new last message, last_activity is the time of the call, and the
\* session returned is the one the map holds under the id.
C15_AddUserMessageGetOrCreate ==
    Called("add_user_message")
        => LET id == mcall.session_id
               earlier == IF FoundLive THEN mcall.before[id].messages ELSE <<>>
           IN  /\ id \in DOMAIN sessions
               /\ sessions[id].messages =
                      Append(earlier, [role |-> "user", content |-> mcall.message,
                                       timestamp |-> now])
               /\ sessions[id].last_activity = now
               /\ sessions[id].created_at =
                      IF FoundLive THEN mcall.before[id].created_at ELSE now
               /\ mret = RetSession(sessions[id])
               /\ OthersUntouched

C15_Witness ==
    /\ Called("add_user_message")
    /\ FoundLive
    /\ mcall.before[mcall.session_id].messages # <<>>
    /\ mcall.before[mcall.session_id].last_activity < now
    /\ Len(sessions[mcall.session_id].messages) = 2

\* C16: a call of add_user_message or add_assistant_message on a live session
\* adds exactly one message at the end, and no call other than the ones that
\* end a session (create_session, clear_session, the cleanup) removes, reorders
\* or changes a message of a live session; so N such calls leave N messages in
\* call order.
C16_SessionAppendMonotonicity ==
    /\ (Called("add_user_message") \/ Called("add_assistant_message")) /\ FoundLive
           => /\ mcall.session_id \in DOMAIN sessions
              /\ Len(sessions[mcall.session_id].messages) =
                     Len(mcall.before[mcall.session_id].messages) + 1
              /\ sessions[mcall.session_id].messages[
                     Len(sessions[mcall.session_id].messages)].content = mcall.message
    /\ mcall.op \notin {"create_session", "clear_session", "cleanup_expired_sessions"}
           => \A k \in DOMAIN mcall.before :
                  now - mcall.before[k].last_activity <= 30
                      => /\ k \in DOMAIN sessions
                         /\ IsPrefix(mcall.before[k].messages, sessions[k].messages)
                         /\ (k # mcall.session_id
                                 => sessions[k].messages = mcall.before[k].messages)

C16_Witness ==
    /\ Called("add_assistant_message")
    /\ FoundLive
    /\ Len(mcall.before[mcall.session_id].messages) = 1
    /\ mcall.before[mcall.session_id].messages[1].role = "user"
    /\ mcall.before[mcall.session_id].messages[1].content # mcall.message
    /\ Len(sessions[mcall.session_id].messages) = 2

\* C17: the last_activity of the session stored under an id never decreases
\* from one call to the next, and created_at <= last_activity in every state.
C17_LastActivityMonotonic ==
    /\ \A k \in DOMAIN sessions :
           sessions[k].created_at <= sessions[k].last_activity
    /\ \A k \in (DOMAIN sessions) \cap (DOMAIN mcall.before) :
           mcall.before[k].last_activity <= sessions[k].last_activity

C17_Witness ==
    /\ Called("add_assistant_message")
    /\ FoundLive
    /\ mcall.before[mcall.session_id].last_activity < now
    /\ sessions[mcall.session_id].last_activity = now
    /\ sessions[mcall.session_id].created_at < now

\* C18: clear_session returns True exactly when it removed a session stored
\* under the id; with no session there it returns False and changes nothing;
\* the sessions under other ids are never affected.
C18_ClearSession ==
    Called("clear_session")
        => /\ mret.flag <=> mcall.session_id \in DOMAIN mcall.before
           /\ mcall.session_id \notin DOMAIN sessions
           /\ ~ mret.flag => sessions = mcall.before
           /\ OthersUntouched

C18_Witness ==
    /\ Called("clear_session")
    /\ mret.flag
    /\ mcall.session_id \in DOMAIN mcall.before
    /\ sessions # EmptyDict

\* the lines of a rendered context that show a message
MessageLines(text) ==
    SelectSeq(Lines(text), LAMBDA line : line # <<>> /\ line[1] = "[")

Min(a, b) == IF a < b THEN a ELSE b

\* C19 (as claimed): get_conversation_context renders exactly the last
\* min(limit, number of messages) messages, in order, for every limit >= 0,
\* then the continuation instruction; the text is empty when the session is
\* absent, expired or without messages.
C19_ContextRendersLastLimit ==
    Called("get_conversation_context")
        => IF ~ FoundLive \/ mcall.before[mcall.session_id].messages = <<>>
           THEN mret.text = <<>>
           ELSE LET messages == mcall.before[mcall.session_id].messages
                    n == Len(messages)
                    k == Min(mcall.limit, n)
                    shown == MessageLines(mret.text)
                IN  /\ Len(shown) = k
                    /\ \A i \in 1..k :
                           shown[i][Len(shown[i])] = messages[n - k + i].content
                    /\ mret.text[Len(mret.text)] = ContinueInstruction

\* the same for every limit of at least 1
C19_ContextRendersLastLimitPositive ==
    mcall.limit >= 1 => C19_ContextRendersLastLimit

-----------------------------------------------------------------------------
(* Claims about a turn of ordering_swarm and the memory *)

OrderingSwarmTurn == entry = "ordering_swarm"

OrderingTurnWithSession == entry = "ordering_swarm" /\ args.session_id # None

MemoryCalls == {"add_user_message", "get_conversation_context", "add_assistant_message"}

\* a call of the turn to a collaborator raised
Raised(names) ==
    \E i \in 1..Len(call_log) : call_log[i].call \in names /\ call_log[i].raised

MenuFetchFailed ==
    /\ CallsOf("get_business_menu_context") # <<>>
    /\ menu_context = None

\* C11: a turn of ordering_swarm goes on from every state until it returns,
\* whatever its collaborators do, and what it returns is a text: the answer of
\* an agent, or the apology when no agent gave one.
C11_AlwaysATextResponse ==
    OrderingSwarmTurn
        => /\ tpc # "returned" => ENABLED Next
           /\ tpc = "returned"
                  => /\ returned.producer # "none"
                     /\ returned.text \in {"final answer", "answer", "technical difficulties"}
                     /\ Raised({"fallback_agent"})
                            => returned.text = "technical difficulties"

C11_Witness ==
    /\ OrderingSwarmTurn
    /\ tpc = "returned"
    /\ MenuFetchFailed
    /\ Raised({"add_user_message"})
    /\ swarm_status = "RAISED"
    /\ Raised({"fallback_agent"})
    /\ Raised({"add_assistant_message"})
    /\ returned.text = "technical difficulties"

\* the session found by the turn was live when the turn started
FoundLiveSession ==
    LET call == CallsOf("add_user_message")[1]
    IN  /\ call.session_id \in DOMAIN call.before
        /\ TurnStart - call.before[call.session_id].last_activity <= 30

IndicesOf(names) == { i \in 1..Len(call_log) : call_log[i].call \in names }

AgentCallNames == {"swarm", "fallback_to_single_agent"}

-----------------------------------------------------------------------------
(* The validator called again: its own correction, and its synchronous wrapper *)

\* the first call rejected the response against a non-empty, well-formed menu
\* and the safe_response it returned has been validated again
CorrectionRevalidated ==
    /\ vpc = "revalidated"
    /\ menu_items # <<>>
    /\ WellFormed(menu_items)
    /\ ~ vresult.is_valid

\* C25: for every non-empty menu M and every response R that validate
\* rejects, validating the returned safe_response against the same M yields
\* is_valid=True and returns it unchanged.
C25_CorrectionIsGrounded ==
    CorrectionRevalidated =>
        /\ vagain.is_valid
        /\ vagain.corrected_response = vresult.corrected_response

\* C26: validate_response and validate_response_async return the same is_valid
\* verdict and the same safe_response for the same response and the same menu
\* contents, whether or not the caller is inside a running event loop.
C26_SyncWrapperEquivalent ==
    vpc = "sync_done" =>
        /\ sresult.is_valid = vresult.is_valid
        /\ sresult.corrected_response = vresult.corrected_response

\* validating raised inside validate_response_async: a fetched row lacks its
\* name or its price
InternalError == vpc = "done" /\ menu_items # <<>> /\ raises_key_error(menu_items)

\* C27: validate_response_async never raises: a call that has not returned can
\* always take its next step, and when a menu item lacks its name or price the
\* call returns (False, the fixed apology, []) and not the candidate response.
C27_ValidatorNeverRaises ==
    /\ vpc \in {"start", "fetched"} => ENABLED NextValidator
    /\ InternalError =>
        /\ vresult = [is_valid |-> FALSE, corrected_response |-> ErrorApology,
                      available_items |-> <<>>]
        /\ vresult.corrected_response # response

C27_Witness ==
    /\ InternalError
    /\ ~ vresult.is_valid
    /\ vresult.corrected_response = ErrorApology
    /\ Len(menu_items) > 1
    /\ FlaggedTerms(response, <<>>) = {}

-----------------------------------------------------------------------------
(* Reading a session *)

ReadCalls == {"get_session", "get_conversation_context", "get_order_context"}

\* when the session last had a message appended, or was created if it has none
last_appended(session) ==
    IF session.messages = <<>> THEN session.created_at
    ELSE session.messages[Len(session.messages)].timestamp

\* C28: get_session, get_conversation_context, get_order_context on a live
\* session and get_session_stats leave every session as they found it; the
\* last_activity of a session is the time of its last appended message (of its
\* creation when it has none), so a read more than one timeout after that
\* finds the session expired and answers as for no session.
C28_ReadsLeaveSessionUnchanged ==
    /\ \A k \in DOMAIN sessions : sessions[k].last_activity = last_appended(sessions[k])
    /\ (mcall.op \in ReadCalls /\ FoundLive) => sessions = mcall.before
    /\ Called("get_session_stats") => sessions = mcall.before
    /\ (/\ mcall.op \in ReadCalls
        /\ mcall.session_id \in DOMAIN mcall.before
        /\ now - last_appended(mcall.before[mcall.session_id]) > session_timeout)
       => /\ mcall.session_id \notin DOMAIN sessions
          /\ mret \in {RetNone, RetStr(<<>>), RetDict(EmptyDict)}

\* the order context of a live session that was read before is read again,
\* some minutes after its last message
C28_Witness ==
    /\ Called("get_order_context")
    /\ FoundLive
    /\ mret.value.dietary_restrictions # {}
    /\ mret.value.quantity_requests # {}
    /\ now > sessions[mcall.session_id].last_activity

-----------------------------------------------------------------------------
(* The conversation in the prompt *)

\* the turn has a session and composed a conversation context from it
ContextComposed ==
    /\ OrderingTurnWithSession
    /\ conversation_context.kind = "str"
    /\ conversation_context.text # <<>>

\* the prompt of an agent call holds the conversation context of the turn
PromptHoldsConversation(call) ==
    \E k \in 1..Len(call.prompt) :
        /\ call.prompt[k].part = "conversation_context"
        /\ call.prompt[k].value = conversation_context

\* C23: when a session_id is supplied, the conversation context composed from
\* the memory is in the prompt of the agents that handle the turn, both when
\* the swarm runs it and when the single agent does.
C23_ContextInEveryPrompt ==
    ContextComposed =>
        \A i \in IndicesOf(AgentCallNames) : PromptHoldsConversation(call_log[i])

\* the single agent of the fallback does get the conversation
C23_ContextInFallbackPrompt ==
    ContextComposed =>
        \A i \in IndicesOf({"fallback_to_single_agent"}) :
            PromptHoldsConversation(call_log[i])

-----------------------------------------------------------------------------
(* Concurrent handlers *)

\* the handler is inside a method that mutates the shared state: under the
\* with block of get_session or create_session, or in add_message between its
\* append and its write of last_activity
Mutating(t) ==
    cpc[t].line \in {"get_session_locked", "create_session_locked", "last_activity"}

\* C21: every operation that mutates the shared session state (the map, a
\* message list, last_activity) executes while holding the lock of the service,
\* so no two such mutations interleave.
C21_MutationsHoldTheLock ==
    /\ \A t \in Threads : Mutating(t) => lock = t
    /\ \A t, u \in Threads : (Mutating(t) /\ Mutating(u)) => t = u

\* a language-model invocation or a menu fetch of the handler is in flight
InFlight(t) == cpc[t].line = "in_flight"

BothAddedToAbsentSession ==
    /\ clocal["t1"].session_id = clocal["t2"].session_id
    /\ \A i \in 1..Len(heap) :
           heap[i].created_at < now => now - heap[i].created_at > session_timeout
    /\ \A t \in Threads :
           cpc[t].call \in {"get_conversation_context", "agent",
                            "add_assistant_message", "done"}

\* the sessions created since the handlers were called
CreatedSince == { i \in 1..Len(heap) : heap[i].created_at = now }

\* C24: when two handlers call add_user_message concurrently with the same
\* session_id that has no live session, exactly one session is created and the
\* session in the map afterwards holds both user messages.
C24_GetOrCreateIsAtomic ==
    BothAddedToAbsentSession =>
        LET id == clocal["t1"].session_id
        IN  /\ Cardinality(CreatedSince) = 1
            /\ id \in DOMAIN sessions
            /\ \A t \in Threads :
                   \E k \in 1..Len(sessions[id].messages) :
                       /\ sessions[id].messages[k].role = "user"
                       /\ sessions[id].messages[k].content = RequestOf(t)

-----------------------------------------------------------------------------
(* Who may read and clear a session *)

SessionEndpoints == {"get_conversation_history", "clear_conversation_session"}

\* the request named a session that was in the map and had not expired
RequestFoundLive ==
    /\ ereq.endpoint \in SessionEndpoints
    /\ ereq.session_id \in DOMAIN ereq.before
    /\ ~ is_expired(ereq.before[ereq.session_id], ereq.at)

\* the caller is the user on whose behalf the session was created
RequestByOwner == ereq.owners[ereq.session_id].user = ereq.user

\* the request was served: the history is the session's messages and the map
\* is as before, or the session is gone from the map
Served ==
    /\ eresp.status_code = 200
    /\ IF ereq.endpoint = "get_conversation_history"
       THEN /\ eresp.messages = ereq.before[ereq.session_id].messages
            /\ sessions = ereq.before
       ELSE sessions = dict_del(ereq.before, ereq.session_id)

Denied == eresp.status_code = 403 /\ sessions = ereq.before

\* C29: a live session is read through get_conversation_history and removed
\* through clear_conversation_session by exactly the user on whose behalf it
\* was created, by the create-session endpoint or by that user's chat turn; a
\* request by any other user is denied with 403 and leaves the map unchanged.
C29_OnlyTheOwnerReadsAndClears ==
    RequestFoundLive => IF RequestByOwner THEN Served ELSE Denied

\* the sessions of the create-session endpoint are served to their owner and
\* to no one else; no other user is served a session of a chat turn either
C29_CreatedSessionsAndStrangers ==
    RequestFoundLive =>
        /\ ereq.owners[ereq.session_id].by = "create"
               => IF RequestByOwner THEN Served ELSE Denied
        /\ ~ RequestByOwner => Denied

-----------------------------------------------------------------------------
(* The bookkeeping of OrderTracker *)

\* C30: for any order of connect, send_update (which drops the websockets whose
\* send fails) and disconnect, disconnect does not raise, also for a websocket
\* that send_update dropped before, and after it active_connections holds
\* neither that websocket nor an order_id mapped to an empty list.
C30_DisconnectAfterDrop ==
    tcall.op = "disconnect" =>
        /\ ~ tcall.raised
        /\ \A order_id \in DOMAIN active_connections :
               /\ active_connections[order_id] # <<>>
               /\ ~ InList(tcall.websocket, active_connections[order_id])

\* a websocket that is still on the list of its order is taken off by
\* disconnect, and the order goes with its last websocket
C30_DisconnectOfListed ==
    (/\ tcall.op = "disconnect"
     /\ ~ tcall.raised)
        => \A order_id \in DOMAIN active_connections :
               ~ InList(tcall.websocket, active_connections[order_id])

====
